---- MODULE Spec2Model ----
(***************************************************************************)
(* zod-to-protobuf: the compiler zodToProtobuf of src/src/index.ts.        *)
(*                                                                         *)
(* A JavaScript string is a sequence of one-character strings, so that     *)
(* charAt, slice, split, join, replace and trim are computed as the code   *)
(* computes them.  A Zod schema node is a record tagged by the name of its *)
(* constructor (kind); a value that is no Zod schema is tagged "foreign".  *)
(* A Map<string, string[]> is a sequence of [name, body] entries in        *)
(* insertion order.                                                        *)
(***************************************************************************)
EXTENDS Integers, Sequences, FiniteSets, TLC

VARIABLES
    pc,         \* position of the current zodToProtobuf call
    schema,     \* its first argument
    options,    \* its second argument
    messages,   \* const messages = new Map<string, string[]>()
    enums,      \* const enums = new Map<string, string[]>()
    fields,     \* const fields = traverseSchema(...)
    outcome,    \* what the call gave its caller: a string or an exception
    argument,   \* the string a caller hands to toPascalCase
    applied     \* what toPascalCase returned, application after application

\* The variables of the calls of toPascalCase on their own.
nameVars == <<argument, applied>>

vars == <<pc, schema, options, messages, enums, fields, outcome, argument, applied>>

(***************************************************************************)
(* Strings                                                                 *)
(***************************************************************************)

\* JavaScript null in a ProtobufField.types array: no string equals it.
Null == <<"null">>

\* A property of the options object that is absent.
Undefined == <<"undefined">>

SP == " "
NL == "\n"

\* The UTF-16 code units that String.prototype.toUpperCase changes on the
\* runtimes the package runs on (Node.js 20 and 22): the mappings of
\* UnicodeData.txt and the unconditional ones of SpecialCasing.txt as of
\* Unicode 14.0, followed by the eight small letters of the Basic
\* Multilingual Plane that got a capital in Unicode 16.0 and 17.0 (U+019B,
\* U+0264, U+1C8A, U+A7CD, U+A7CF, U+A7D3, U+A7D5, U+A7DB).  A code unit
\* above U+00FF is written by its code point, "U+0101", and is one character
\* of a string; surrogates, and with them the characters above U+FFFF that
\* charAt(0) cuts in two, are left as they are.
LowerCase ==
    <<"a", "b", "c", "d", "e", "f", "g", "h", "i", "j", "k", "l", "m", "n", "o", "p", "q", "r",
      "s", "t", "u", "v", "w", "x", "y", "z", "µ", "ß", "à", "á", "â", "ã", "ä", "å", "æ", "ç",
      "è", "é", "ê", "ë", "ì", "í", "î", "ï", "ð", "ñ", "ò", "ó", "ô", "õ", "ö", "ø", "ù", "ú",
      "û", "ü", "ý", "þ", "ÿ", "U+0101", "U+0103", "U+0105", "U+0107", "U+0109", "U+010B",
      "U+010D", "U+010F", "U+0111", "U+0113", "U+0115", "U+0117", "U+0119", "U+011B", "U+011D",
      "U+011F", "U+0121", "U+0123", "U+0125", "U+0127", "U+0129", "U+012B", "U+012D", "U+012F",
      "U+0131", "U+0133", "U+0135", "U+0137", "U+013A", "U+013C", "U+013E", "U+0140", "U+0142",
      "U+0144", "U+0146", "U+0148", "U+0149", "U+014B", "U+014D", "U+014F", "U+0151", "U+0153",
      "U+0155", "U+0157", "U+0159", "U+015B", "U+015D", "U+015F", "U+0161", "U+0163", "U+0165",
      "U+0167", "U+0169", "U+016B", "U+016D", "U+016F", "U+0171", "U+0173", "U+0175", "U+0177",
      "U+017A", "U+017C", "U+017E", "U+017F", "U+0180", "U+0183", "U+0185", "U+0188", "U+018C",
      "U+0192", "U+0195", "U+0199", "U+019A", "U+019E", "U+01A1", "U+01A3", "U+01A5", "U+01A8",
      "U+01AD", "U+01B0", "U+01B4", "U+01B6", "U+01B9", "U+01BD", "U+01BF", "U+01C5", "U+01C6",
      "U+01C8", "U+01C9", "U+01CB", "U+01CC", "U+01CE", "U+01D0", "U+01D2", "U+01D4", "U+01D6",
      "U+01D8", "U+01DA", "U+01DC", "U+01DD", "U+01DF", "U+01E1", "U+01E3", "U+01E5", "U+01E7",
      "U+01E9", "U+01EB", "U+01ED", "U+01EF", "U+01F0", "U+01F2", "U+01F3", "U+01F5", "U+01F9",
      "U+01FB", "U+01FD", "U+01FF", "U+0201", "U+0203", "U+0205", "U+0207", "U+0209", "U+020B",
      "U+020D", "U+020F", "U+0211", "U+0213", "U+0215", "U+0217", "U+0219", "U+021B", "U+021D",
      "U+021F", "U+0223", "U+0225", "U+0227", "U+0229", "U+022B", "U+022D", "U+022F", "U+0231",
      "U+0233", "U+023C", "U+023F", "U+0240", "U+0242", "U+0247", "U+0249", "U+024B", "U+024D",
      "U+024F", "U+0250", "U+0251", "U+0252", "U+0253", "U+0254", "U+0256", "U+0257", "U+0259",
      "U+025B", "U+025C", "U+0260", "U+0261", "U+0263", "U+0265", "U+0266", "U+0268", "U+0269",
      "U+026A", "U+026B", "U+026C", "U+026F", "U+0271", "U+0272", "U+0275", "U+027D", "U+0280",
      "U+0282", "U+0283", "U+0287", "U+0288", "U+0289", "U+028A", "U+028B", "U+028C", "U+0292",
      "U+029D", "U+029E", "U+0345", "U+0371", "U+0373", "U+0377", "U+037B", "U+037C", "U+037D",
      "U+0390", "U+03AC", "U+03AD", "U+03AE", "U+03AF", "U+03B0", "U+03B1", "U+03B2", "U+03B3",
      "U+03B4", "U+03B5", "U+03B6", "U+03B7", "U+03B8", "U+03B9", "U+03BA", "U+03BB", "U+03BC",
      "U+03BD", "U+03BE", "U+03BF", "U+03C0", "U+03C1", "U+03C2", "U+03C3", "U+03C4", "U+03C5",
      "U+03C6", "U+03C7", "U+03C8", "U+03C9", "U+03CA", "U+03CB", "U+03CC", "U+03CD", "U+03CE",
      "U+03D0", "U+03D1", "U+03D5", "U+03D6", "U+03D7", "U+03D9", "U+03DB", "U+03DD", "U+03DF",
      "U+03E1", "U+03E3", "U+03E5", "U+03E7", "U+03E9", "U+03EB", "U+03ED", "U+03EF", "U+03F0",
      "U+03F1", "U+03F2", "U+03F3", "U+03F5", "U+03F8", "U+03FB", "U+0430", "U+0431", "U+0432",
      "U+0433", "U+0434", "U+0435", "U+0436", "U+0437", "U+0438", "U+0439", "U+043A", "U+043B",
      "U+043C", "U+043D", "U+043E", "U+043F", "U+0440", "U+0441", "U+0442", "U+0443", "U+0444",
      "U+0445", "U+0446", "U+0447", "U+0448", "U+0449", "U+044A", "U+044B", "U+044C", "U+044D",
      "U+044E", "U+044F", "U+0450", "U+0451", "U+0452", "U+0453", "U+0454", "U+0455", "U+0456",
      "U+0457", "U+0458", "U+0459", "U+045A", "U+045B", "U+045C", "U+045D", "U+045E", "U+045F",
      "U+0461", "U+0463", "U+0465", "U+0467", "U+0469", "U+046B", "U+046D", "U+046F", "U+0471",
      "U+0473", "U+0475", "U+0477", "U+0479", "U+047B", "U+047D", "U+047F", "U+0481", "U+048B",
      "U+048D", "U+048F", "U+0491", "U+0493", "U+0495", "U+0497", "U+0499", "U+049B", "U+049D",
      "U+049F", "U+04A1", "U+04A3", "U+04A5", "U+04A7", "U+04A9", "U+04AB", "U+04AD", "U+04AF",
      "U+04B1", "U+04B3", "U+04B5", "U+04B7", "U+04B9", "U+04BB", "U+04BD", "U+04BF", "U+04C2",
      "U+04C4", "U+04C6", "U+04C8", "U+04CA", "U+04CC", "U+04CE", "U+04CF", "U+04D1", "U+04D3",
      "U+04D5", "U+04D7", "U+04D9", "U+04DB", "U+04DD", "U+04DF", "U+04E1", "U+04E3", "U+04E5",
      "U+04E7", "U+04E9", "U+04EB", "U+04ED", "U+04EF", "U+04F1", "U+04F3", "U+04F5", "U+04F7",
      "U+04F9", "U+04FB", "U+04FD", "U+04FF", "U+0501", "U+0503", "U+0505", "U+0507", "U+0509",
      "U+050B", "U+050D", "U+050F", "U+0511", "U+0513", "U+0515", "U+0517", "U+0519", "U+051B",
      "U+051D", "U+051F", "U+0521", "U+0523", "U+0525", "U+0527", "U+0529", "U+052B", "U+052D",
      "U+052F", "U+0561", "U+0562", "U+0563", "U+0564", "U+0565", "U+0566", "U+0567", "U+0568",
      "U+0569", "U+056A", "U+056B", "U+056C", "U+056D", "U+056E", "U+056F", "U+0570", "U+0571",
      "U+0572", "U+0573", "U+0574", "U+0575", "U+0576", "U+0577", "U+0578", "U+0579", "U+057A",
      "U+057B", "U+057C", "U+057D", "U+057E", "U+057F", "U+0580", "U+0581", "U+0582", "U+0583",
      "U+0584", "U+0585", "U+0586", "U+0587", "U+10D0", "U+10D1", "U+10D2", "U+10D3", "U+10D4",
      "U+10D5", "U+10D6", "U+10D7", "U+10D8", "U+10D9", "U+10DA", "U+10DB", "U+10DC", "U+10DD",
      "U+10DE", "U+10DF", "U+10E0", "U+10E1", "U+10E2", "U+10E3", "U+10E4", "U+10E5", "U+10E6",
      "U+10E7", "U+10E8", "U+10E9", "U+10EA", "U+10EB", "U+10EC", "U+10ED", "U+10EE", "U+10EF",
      "U+10F0", "U+10F1", "U+10F2", "U+10F3", "U+10F4", "U+10F5", "U+10F6", "U+10F7", "U+10F8",
      "U+10F9", "U+10FA", "U+10FD", "U+10FE", "U+10FF", "U+13F8", "U+13F9", "U+13FA", "U+13FB",
      "U+13FC", "U+13FD", "U+1C80", "U+1C81", "U+1C82", "U+1C83", "U+1C84", "U+1C85", "U+1C86",
      "U+1C87", "U+1C88", "U+1D79", "U+1D7D", "U+1D8E", "U+1E01", "U+1E03", "U+1E05", "U+1E07",
      "U+1E09", "U+1E0B", "U+1E0D", "U+1E0F", "U+1E11", "U+1E13", "U+1E15", "U+1E17", "U+1E19",
      "U+1E1B", "U+1E1D", "U+1E1F", "U+1E21", "U+1E23", "U+1E25", "U+1E27", "U+1E29", "U+1E2B",
      "U+1E2D", "U+1E2F", "U+1E31", "U+1E33", "U+1E35", "U+1E37", "U+1E39", "U+1E3B", "U+1E3D",
      "U+1E3F", "U+1E41", "U+1E43", "U+1E45", "U+1E47", "U+1E49", "U+1E4B", "U+1E4D", "U+1E4F",
      "U+1E51", "U+1E53", "U+1E55", "U+1E57", "U+1E59", "U+1E5B", "U+1E5D", "U+1E5F", "U+1E61",
      "U+1E63", "U+1E65", "U+1E67", "U+1E69", "U+1E6B", "U+1E6D", "U+1E6F", "U+1E71", "U+1E73",
      "U+1E75", "U+1E77", "U+1E79", "U+1E7B", "U+1E7D", "U+1E7F", "U+1E81", "U+1E83", "U+1E85",
      "U+1E87", "U+1E89", "U+1E8B", "U+1E8D", "U+1E8F", "U+1E91", "U+1E93", "U+1E95", "U+1E96",
      "U+1E97", "U+1E98", "U+1E99", "U+1E9A", "U+1E9B", "U+1EA1", "U+1EA3", "U+1EA5", "U+1EA7",
      "U+1EA9", "U+1EAB", "U+1EAD", "U+1EAF", "U+1EB1", "U+1EB3", "U+1EB5", "U+1EB7", "U+1EB9",
      "U+1EBB", "U+1EBD", "U+1EBF", "U+1EC1", "U+1EC3", "U+1EC5", "U+1EC7", "U+1EC9", "U+1ECB",
      "U+1ECD", "U+1ECF", "U+1ED1", "U+1ED3", "U+1ED5", "U+1ED7", "U+1ED9", "U+1EDB", "U+1EDD",
      "U+1EDF", "U+1EE1", "U+1EE3", "U+1EE5", "U+1EE7", "U+1EE9", "U+1EEB", "U+1EED", "U+1EEF",
      "U+1EF1", "U+1EF3", "U+1EF5", "U+1EF7", "U+1EF9", "U+1EFB", "U+1EFD", "U+1EFF", "U+1F00",
      "U+1F01", "U+1F02", "U+1F03", "U+1F04", "U+1F05", "U+1F06", "U+1F07", "U+1F10", "U+1F11",
      "U+1F12", "U+1F13", "U+1F14", "U+1F15", "U+1F20", "U+1F21", "U+1F22", "U+1F23", "U+1F24",
      "U+1F25", "U+1F26", "U+1F27", "U+1F30", "U+1F31", "U+1F32", "U+1F33", "U+1F34", "U+1F35",
      "U+1F36", "U+1F37", "U+1F40", "U+1F41", "U+1F42", "U+1F43", "U+1F44", "U+1F45", "U+1F50",
      "U+1F51", "U+1F52", "U+1F53", "U+1F54", "U+1F55", "U+1F56", "U+1F57", "U+1F60", "U+1F61",
      "U+1F62", "U+1F63", "U+1F64", "U+1F65", "U+1F66", "U+1F67", "U+1F70", "U+1F71", "U+1F72",
      "U+1F73", "U+1F74", "U+1F75", "U+1F76", "U+1F77", "U+1F78", "U+1F79", "U+1F7A", "U+1F7B",
      "U+1F7C", "U+1F7D", "U+1F80", "U+1F81", "U+1F82", "U+1F83", "U+1F84", "U+1F85", "U+1F86",
      "U+1F87", "U+1F88", "U+1F89", "U+1F8A", "U+1F8B", "U+1F8C", "U+1F8D", "U+1F8E", "U+1F8F",
      "U+1F90", "U+1F91", "U+1F92", "U+1F93", "U+1F94", "U+1F95", "U+1F96", "U+1F97", "U+1F98",
      "U+1F99", "U+1F9A", "U+1F9B", "U+1F9C", "U+1F9D", "U+1F9E", "U+1F9F", "U+1FA0", "U+1FA1",
      "U+1FA2", "U+1FA3", "U+1FA4", "U+1FA5", "U+1FA6", "U+1FA7", "U+1FA8", "U+1FA9", "U+1FAA",
      "U+1FAB", "U+1FAC", "U+1FAD", "U+1FAE", "U+1FAF", "U+1FB0", "U+1FB1", "U+1FB2", "U+1FB3",
      "U+1FB4", "U+1FB6", "U+1FB7", "U+1FBC", "U+1FBE", "U+1FC2", "U+1FC3", "U+1FC4", "U+1FC6",
      "U+1FC7", "U+1FCC", "U+1FD0", "U+1FD1", "U+1FD2", "U+1FD3", "U+1FD6", "U+1FD7", "U+1FE0",
      "U+1FE1", "U+1FE2", "U+1FE3", "U+1FE4", "U+1FE5", "U+1FE6", "U+1FE7", "U+1FF2", "U+1FF3",
      "U+1FF4", "U+1FF6", "U+1FF7", "U+1FFC", "U+214E", "U+2170", "U+2171", "U+2172", "U+2173",
      "U+2174", "U+2175", "U+2176", "U+2177", "U+2178", "U+2179", "U+217A", "U+217B", "U+217C",
      "U+217D", "U+217E", "U+217F", "U+2184", "U+24D0", "U+24D1", "U+24D2", "U+24D3", "U+24D4",
      "U+24D5", "U+24D6", "U+24D7", "U+24D8", "U+24D9", "U+24DA", "U+24DB", "U+24DC", "U+24DD",
      "U+24DE", "U+24DF", "U+24E0", "U+24E1", "U+24E2", "U+24E3", "U+24E4", "U+24E5", "U+24E6",
      "U+24E7", "U+24E8", "U+24E9", "U+2C30", "U+2C31", "U+2C32", "U+2C33", "U+2C34", "U+2C35",
      "U+2C36", "U+2C37", "U+2C38", "U+2C39", "U+2C3A", "U+2C3B", "U+2C3C", "U+2C3D", "U+2C3E",
      "U+2C3F", "U+2C40", "U+2C41", "U+2C42", "U+2C43", "U+2C44", "U+2C45", "U+2C46", "U+2C47",
      "U+2C48", "U+2C49", "U+2C4A", "U+2C4B", "U+2C4C", "U+2C4D", "U+2C4E", "U+2C4F", "U+2C50",
      "U+2C51", "U+2C52", "U+2C53", "U+2C54", "U+2C55", "U+2C56", "U+2C57", "U+2C58", "U+2C59",
      "U+2C5A", "U+2C5B", "U+2C5C", "U+2C5D", "U+2C5E", "U+2C5F", "U+2C61", "U+2C65", "U+2C66",
      "U+2C68", "U+2C6A", "U+2C6C", "U+2C73", "U+2C76", "U+2C81", "U+2C83", "U+2C85", "U+2C87",
      "U+2C89", "U+2C8B", "U+2C8D", "U+2C8F", "U+2C91", "U+2C93", "U+2C95", "U+2C97", "U+2C99",
      "U+2C9B", "U+2C9D", "U+2C9F", "U+2CA1", "U+2CA3", "U+2CA5", "U+2CA7", "U+2CA9", "U+2CAB",
      "U+2CAD", "U+2CAF", "U+2CB1", "U+2CB3", "U+2CB5", "U+2CB7", "U+2CB9", "U+2CBB", "U+2CBD",
      "U+2CBF", "U+2CC1", "U+2CC3", "U+2CC5", "U+2CC7", "U+2CC9", "U+2CCB", "U+2CCD", "U+2CCF",
      "U+2CD1", "U+2CD3", "U+2CD5", "U+2CD7", "U+2CD9", "U+2CDB", "U+2CDD", "U+2CDF", "U+2CE1",
      "U+2CE3", "U+2CEC", "U+2CEE", "U+2CF3", "U+2D00", "U+2D01", "U+2D02", "U+2D03", "U+2D04",
      "U+2D05", "U+2D06", "U+2D07", "U+2D08", "U+2D09", "U+2D0A", "U+2D0B", "U+2D0C", "U+2D0D",
      "U+2D0E", "U+2D0F", "U+2D10", "U+2D11", "U+2D12", "U+2D13", "U+2D14", "U+2D15", "U+2D16",
      "U+2D17", "U+2D18", "U+2D19", "U+2D1A", "U+2D1B", "U+2D1C", "U+2D1D", "U+2D1E", "U+2D1F",
      "U+2D20", "U+2D21", "U+2D22", "U+2D23", "U+2D24", "U+2D25", "U+2D27", "U+2D2D", "U+A641",
      "U+A643", "U+A645", "U+A647", "U+A649", "U+A64B", "U+A64D", "U+A64F", "U+A651", "U+A653",
      "U+A655", "U+A657", "U+A659", "U+A65B", "U+A65D", "U+A65F", "U+A661", "U+A663", "U+A665",
      "U+A667", "U+A669", "U+A66B", "U+A66D", "U+A681", "U+A683", "U+A685", "U+A687", "U+A689",
      "U+A68B", "U+A68D", "U+A68F", "U+A691", "U+A693", "U+A695", "U+A697", "U+A699", "U+A69B",
      "U+A723", "U+A725", "U+A727", "U+A729", "U+A72B", "U+A72D", "U+A72F", "U+A733", "U+A735",
      "U+A737", "U+A739", "U+A73B", "U+A73D", "U+A73F", "U+A741", "U+A743", "U+A745", "U+A747",
      "U+A749", "U+A74B", "U+A74D", "U+A74F", "U+A751", "U+A753", "U+A755", "U+A757", "U+A759",
      "U+A75B", "U+A75D", "U+A75F", "U+A761", "U+A763", "U+A765", "U+A767", "U+A769", "U+A76B",
      "U+A76D", "U+A76F", "U+A77A", "U+A77C", "U+A77F", "U+A781", "U+A783", "U+A785", "U+A787",
      "U+A78C", "U+A791", "U+A793", "U+A794", "U+A797", "U+A799", "U+A79B", "U+A79D", "U+A79F",
      "U+A7A1", "U+A7A3", "U+A7A5", "U+A7A7", "U+A7A9", "U+A7B5", "U+A7B7", "U+A7B9", "U+A7BB",
      "U+A7BD", "U+A7BF", "U+A7C1", "U+A7C3", "U+A7C8", "U+A7CA", "U+A7D1", "U+A7D7", "U+A7D9",
      "U+A7F6", "U+AB53", "U+AB70", "U+AB71", "U+AB72", "U+AB73", "U+AB74", "U+AB75", "U+AB76",
      "U+AB77", "U+AB78", "U+AB79", "U+AB7A", "U+AB7B", "U+AB7C", "U+AB7D", "U+AB7E", "U+AB7F",
      "U+AB80", "U+AB81", "U+AB82", "U+AB83", "U+AB84", "U+AB85", "U+AB86", "U+AB87", "U+AB88",
      "U+AB89", "U+AB8A", "U+AB8B", "U+AB8C", "U+AB8D", "U+AB8E", "U+AB8F", "U+AB90", "U+AB91",
      "U+AB92", "U+AB93", "U+AB94", "U+AB95", "U+AB96", "U+AB97", "U+AB98", "U+AB99", "U+AB9A",
      "U+AB9B", "U+AB9C", "U+AB9D", "U+AB9E", "U+AB9F", "U+ABA0", "U+ABA1", "U+ABA2", "U+ABA3",
      "U+ABA4", "U+ABA5", "U+ABA6", "U+ABA7", "U+ABA8", "U+ABA9", "U+ABAA", "U+ABAB", "U+ABAC",
      "U+ABAD", "U+ABAE", "U+ABAF", "U+ABB0", "U+ABB1", "U+ABB2", "U+ABB3", "U+ABB4", "U+ABB5",
      "U+ABB6", "U+ABB7", "U+ABB8", "U+ABB9", "U+ABBA", "U+ABBB", "U+ABBC", "U+ABBD", "U+ABBE",
      "U+ABBF", "U+FB00", "U+FB01", "U+FB02", "U+FB03", "U+FB04", "U+FB05", "U+FB06", "U+FB13",
      "U+FB14", "U+FB15", "U+FB16", "U+FB17", "U+FF41", "U+FF42", "U+FF43", "U+FF44", "U+FF45",
      "U+FF46", "U+FF47", "U+FF48", "U+FF49", "U+FF4A", "U+FF4B", "U+FF4C", "U+FF4D", "U+FF4E",
      "U+FF4F", "U+FF50", "U+FF51", "U+FF52", "U+FF53", "U+FF54", "U+FF55", "U+FF56", "U+FF57",
      "U+FF58", "U+FF59", "U+FF5A",
      "U+019B", "U+0264", "U+1C8A", "U+A7CD", "U+A7CF", "U+A7D3", "U+A7D5", "U+A7DB">>

UpperCase ==
    <<<<"A">>, <<"B">>, <<"C">>, <<"D">>, <<"E">>, <<"F">>, <<"G">>, <<"H">>, <<"I">>, <<"J">>,
      <<"K">>, <<"L">>, <<"M">>, <<"N">>, <<"O">>, <<"P">>, <<"Q">>, <<"R">>, <<"S">>, <<"T">>,
      <<"U">>, <<"V">>, <<"W">>, <<"X">>, <<"Y">>, <<"Z">>, <<"U+039C">>, <<"S", "S">>,
      <<"À">>, <<"Á">>, <<"Â">>, <<"Ã">>, <<"Ä">>, <<"Å">>, <<"Æ">>, <<"Ç">>, <<"È">>, <<"É">>,
      <<"Ê">>, <<"Ë">>, <<"Ì">>, <<"Í">>, <<"Î">>, <<"Ï">>, <<"Ð">>, <<"Ñ">>, <<"Ò">>, <<"Ó">>,
      <<"Ô">>, <<"Õ">>, <<"Ö">>, <<"Ø">>, <<"Ù">>, <<"Ú">>, <<"Û">>, <<"Ü">>, <<"Ý">>, <<"Þ">>,
      <<"U+0178">>, <<"U+0100">>, <<"U+0102">>, <<"U+0104">>, <<"U+0106">>, <<"U+0108">>,
      <<"U+010A">>, <<"U+010C">>, <<"U+010E">>, <<"U+0110">>, <<"U+0112">>, <<"U+0114">>,
      <<"U+0116">>, <<"U+0118">>, <<"U+011A">>, <<"U+011C">>, <<"U+011E">>, <<"U+0120">>,
      <<"U+0122">>, <<"U+0124">>, <<"U+0126">>, <<"U+0128">>, <<"U+012A">>, <<"U+012C">>,
      <<"U+012E">>, <<"I">>, <<"U+0132">>, <<"U+0134">>, <<"U+0136">>, <<"U+0139">>,
      <<"U+013B">>, <<"U+013D">>, <<"U+013F">>, <<"U+0141">>, <<"U+0143">>, <<"U+0145">>,
      <<"U+0147">>, <<"U+02BC", "N">>, <<"U+014A">>, <<"U+014C">>, <<"U+014E">>, <<"U+0150">>,
      <<"U+0152">>, <<"U+0154">>, <<"U+0156">>, <<"U+0158">>, <<"U+015A">>, <<"U+015C">>,
      <<"U+015E">>, <<"U+0160">>, <<"U+0162">>, <<"U+0164">>, <<"U+0166">>, <<"U+0168">>,
      <<"U+016A">>, <<"U+016C">>, <<"U+016E">>, <<"U+0170">>, <<"U+0172">>, <<"U+0174">>,
      <<"U+0176">>, <<"U+0179">>, <<"U+017B">>, <<"U+017D">>, <<"S">>, <<"U+0243">>,
      <<"U+0182">>, <<"U+0184">>, <<"U+0187">>, <<"U+018B">>, <<"U+0191">>, <<"U+01F6">>,
      <<"U+0198">>, <<"U+023D">>, <<"U+0220">>, <<"U+01A0">>, <<"U+01A2">>, <<"U+01A4">>,
      <<"U+01A7">>, <<"U+01AC">>, <<"U+01AF">>, <<"U+01B3">>, <<"U+01B5">>, <<"U+01B8">>,
      <<"U+01BC">>, <<"U+01F7">>, <<"U+01C4">>, <<"U+01C4">>, <<"U+01C7">>, <<"U+01C7">>,
      <<"U+01CA">>, <<"U+01CA">>, <<"U+01CD">>, <<"U+01CF">>, <<"U+01D1">>, <<"U+01D3">>,
      <<"U+01D5">>, <<"U+01D7">>, <<"U+01D9">>, <<"U+01DB">>, <<"U+018E">>, <<"U+01DE">>,
      <<"U+01E0">>, <<"U+01E2">>, <<"U+01E4">>, <<"U+01E6">>, <<"U+01E8">>, <<"U+01EA">>,
      <<"U+01EC">>, <<"U+01EE">>, <<"J", "U+030C">>, <<"U+01F1">>, <<"U+01F1">>, <<"U+01F4">>,
      <<"U+01F8">>, <<"U+01FA">>, <<"U+01FC">>, <<"U+01FE">>, <<"U+0200">>, <<"U+0202">>,
      <<"U+0204">>, <<"U+0206">>, <<"U+0208">>, <<"U+020A">>, <<"U+020C">>, <<"U+020E">>,
      <<"U+0210">>, <<"U+0212">>, <<"U+0214">>, <<"U+0216">>, <<"U+0218">>, <<"U+021A">>,
      <<"U+021C">>, <<"U+021E">>, <<"U+0222">>, <<"U+0224">>, <<"U+0226">>, <<"U+0228">>,
      <<"U+022A">>, <<"U+022C">>, <<"U+022E">>, <<"U+0230">>, <<"U+0232">>, <<"U+023B">>,
      <<"U+2C7E">>, <<"U+2C7F">>, <<"U+0241">>, <<"U+0246">>, <<"U+0248">>, <<"U+024A">>,
      <<"U+024C">>, <<"U+024E">>, <<"U+2C6F">>, <<"U+2C6D">>, <<"U+2C70">>, <<"U+0181">>,
      <<"U+0186">>, <<"U+0189">>, <<"U+018A">>, <<"U+018F">>, <<"U+0190">>, <<"U+A7AB">>,
      <<"U+0193">>, <<"U+A7AC">>, <<"U+0194">>, <<"U+A78D">>, <<"U+A7AA">>, <<"U+0197">>,
      <<"U+0196">>, <<"U+A7AE">>, <<"U+2C62">>, <<"U+A7AD">>, <<"U+019C">>, <<"U+2C6E">>,
      <<"U+019D">>, <<"U+019F">>, <<"U+2C64">>, <<"U+01A6">>, <<"U+A7C5">>, <<"U+01A9">>,
      <<"U+A7B1">>, <<"U+01AE">>, <<"U+0244">>, <<"U+01B1">>, <<"U+01B2">>, <<"U+0245">>,
      <<"U+01B7">>, <<"U+A7B2">>, <<"U+A7B0">>, <<"U+0399">>, <<"U+0370">>, <<"U+0372">>,
      <<"U+0376">>, <<"U+03FD">>, <<"U+03FE">>, <<"U+03FF">>, <<"U+0399", "U+0308", "U+0301">>,
      <<"U+0386">>, <<"U+0388">>, <<"U+0389">>, <<"U+038A">>, <<"U+03A5", "U+0308", "U+0301">>,
      <<"U+0391">>, <<"U+0392">>, <<"U+0393">>, <<"U+0394">>, <<"U+0395">>, <<"U+0396">>,
      <<"U+0397">>, <<"U+0398">>, <<"U+0399">>, <<"U+039A">>, <<"U+039B">>, <<"U+039C">>,
      <<"U+039D">>, <<"U+039E">>, <<"U+039F">>, <<"U+03A0">>, <<"U+03A1">>, <<"U+03A3">>,
      <<"U+03A3">>, <<"U+03A4">>, <<"U+03A5">>, <<"U+03A6">>, <<"U+03A7">>, <<"U+03A8">>,
      <<"U+03A9">>, <<"U+03AA">>, <<"U+03AB">>, <<"U+038C">>, <<"U+038E">>, <<"U+038F">>,
      <<"U+0392">>, <<"U+0398">>, <<"U+03A6">>, <<"U+03A0">>, <<"U+03CF">>, <<"U+03D8">>,
      <<"U+03DA">>, <<"U+03DC">>, <<"U+03DE">>, <<"U+03E0">>, <<"U+03E2">>, <<"U+03E4">>,
      <<"U+03E6">>, <<"U+03E8">>, <<"U+03EA">>, <<"U+03EC">>, <<"U+03EE">>, <<"U+039A">>,
      <<"U+03A1">>, <<"U+03F9">>, <<"U+037F">>, <<"U+0395">>, <<"U+03F7">>, <<"U+03FA">>,
      <<"U+0410">>, <<"U+0411">>, <<"U+0412">>, <<"U+0413">>, <<"U+0414">>, <<"U+0415">>,
      <<"U+0416">>, <<"U+0417">>, <<"U+0418">>, <<"U+0419">>, <<"U+041A">>, <<"U+041B">>,
      <<"U+041C">>, <<"U+041D">>, <<"U+041E">>, <<"U+041F">>, <<"U+0420">>, <<"U+0421">>,
      <<"U+0422">>, <<"U+0423">>, <<"U+0424">>, <<"U+0425">>, <<"U+0426">>, <<"U+0427">>,
      <<"U+0428">>, <<"U+0429">>, <<"U+042A">>, <<"U+042B">>, <<"U+042C">>, <<"U+042D">>,
      <<"U+042E">>, <<"U+042F">>, <<"U+0400">>, <<"U+0401">>, <<"U+0402">>, <<"U+0403">>,
      <<"U+0404">>, <<"U+0405">>, <<"U+0406">>, <<"U+0407">>, <<"U+0408">>, <<"U+0409">>,
      <<"U+040A">>, <<"U+040B">>, <<"U+040C">>, <<"U+040D">>, <<"U+040E">>, <<"U+040F">>,
      <<"U+0460">>, <<"U+0462">>, <<"U+0464">>, <<"U+0466">>, <<"U+0468">>, <<"U+046A">>,
      <<"U+046C">>, <<"U+046E">>, <<"U+0470">>, <<"U+0472">>, <<"U+0474">>, <<"U+0476">>,
      <<"U+0478">>, <<"U+047A">>, <<"U+047C">>, <<"U+047E">>, <<"U+0480">>, <<"U+048A">>,
      <<"U+048C">>, <<"U+048E">>, <<"U+0490">>, <<"U+0492">>, <<"U+0494">>, <<"U+0496">>,
      <<"U+0498">>, <<"U+049A">>, <<"U+049C">>, <<"U+049E">>, <<"U+04A0">>, <<"U+04A2">>,
      <<"U+04A4">>, <<"U+04A6">>, <<"U+04A8">>, <<"U+04AA">>, <<"U+04AC">>, <<"U+04AE">>,
      <<"U+04B0">>, <<"U+04B2">>, <<"U+04B4">>, <<"U+04B6">>, <<"U+04B8">>, <<"U+04BA">>,
      <<"U+04BC">>, <<"U+04BE">>, <<"U+04C1">>, <<"U+04C3">>, <<"U+04C5">>, <<"U+04C7">>,
      <<"U+04C9">>, <<"U+04CB">>, <<"U+04CD">>, <<"U+04C0">>, <<"U+04D0">>, <<"U+04D2">>,
      <<"U+04D4">>, <<"U+04D6">>, <<"U+04D8">>, <<"U+04DA">>, <<"U+04DC">>, <<"U+04DE">>,
      <<"U+04E0">>, <<"U+04E2">>, <<"U+04E4">>, <<"U+04E6">>, <<"U+04E8">>, <<"U+04EA">>,
      <<"U+04EC">>, <<"U+04EE">>, <<"U+04F0">>, <<"U+04F2">>, <<"U+04F4">>, <<"U+04F6">>,
      <<"U+04F8">>, <<"U+04FA">>, <<"U+04FC">>, <<"U+04FE">>, <<"U+0500">>, <<"U+0502">>,
      <<"U+0504">>, <<"U+0506">>, <<"U+0508">>, <<"U+050A">>, <<"U+050C">>, <<"U+050E">>,
      <<"U+0510">>, <<"U+0512">>, <<"U+0514">>, <<"U+0516">>, <<"U+0518">>, <<"U+051A">>,
      <<"U+051C">>, <<"U+051E">>, <<"U+0520">>, <<"U+0522">>, <<"U+0524">>, <<"U+0526">>,
      <<"U+0528">>, <<"U+052A">>, <<"U+052C">>, <<"U+052E">>, <<"U+0531">>, <<"U+0532">>,
      <<"U+0533">>, <<"U+0534">>, <<"U+0535">>, <<"U+0536">>, <<"U+0537">>, <<"U+0538">>,
      <<"U+0539">>, <<"U+053A">>, <<"U+053B">>, <<"U+053C">>, <<"U+053D">>, <<"U+053E">>,
      <<"U+053F">>, <<"U+0540">>, <<"U+0541">>, <<"U+0542">>, <<"U+0543">>, <<"U+0544">>,
      <<"U+0545">>, <<"U+0546">>, <<"U+0547">>, <<"U+0548">>, <<"U+0549">>, <<"U+054A">>,
      <<"U+054B">>, <<"U+054C">>, <<"U+054D">>, <<"U+054E">>, <<"U+054F">>, <<"U+0550">>,
      <<"U+0551">>, <<"U+0552">>, <<"U+0553">>, <<"U+0554">>, <<"U+0555">>, <<"U+0556">>,
      <<"U+0535", "U+0552">>, <<"U+1C90">>, <<"U+1C91">>, <<"U+1C92">>, <<"U+1C93">>,
      <<"U+1C94">>, <<"U+1C95">>, <<"U+1C96">>, <<"U+1C97">>, <<"U+1C98">>, <<"U+1C99">>,
      <<"U+1C9A">>, <<"U+1C9B">>, <<"U+1C9C">>, <<"U+1C9D">>, <<"U+1C9E">>, <<"U+1C9F">>,
      <<"U+1CA0">>, <<"U+1CA1">>, <<"U+1CA2">>, <<"U+1CA3">>, <<"U+1CA4">>, <<"U+1CA5">>,
      <<"U+1CA6">>, <<"U+1CA7">>, <<"U+1CA8">>, <<"U+1CA9">>, <<"U+1CAA">>, <<"U+1CAB">>,
      <<"U+1CAC">>, <<"U+1CAD">>, <<"U+1CAE">>, <<"U+1CAF">>, <<"U+1CB0">>, <<"U+1CB1">>,
      <<"U+1CB2">>, <<"U+1CB3">>, <<"U+1CB4">>, <<"U+1CB5">>, <<"U+1CB6">>, <<"U+1CB7">>,
      <<"U+1CB8">>, <<"U+1CB9">>, <<"U+1CBA">>, <<"U+1CBD">>, <<"U+1CBE">>, <<"U+1CBF">>,
      <<"U+13F0">>, <<"U+13F1">>, <<"U+13F2">>, <<"U+13F3">>, <<"U+13F4">>, <<"U+13F5">>,
      <<"U+0412">>, <<"U+0414">>, <<"U+041E">>, <<"U+0421">>, <<"U+0422">>, <<"U+0422">>,
      <<"U+042A">>, <<"U+0462">>, <<"U+A64A">>, <<"U+A77D">>, <<"U+2C63">>, <<"U+A7C6">>,
      <<"U+1E00">>, <<"U+1E02">>, <<"U+1E04">>, <<"U+1E06">>, <<"U+1E08">>, <<"U+1E0A">>,
      <<"U+1E0C">>, <<"U+1E0E">>, <<"U+1E10">>, <<"U+1E12">>, <<"U+1E14">>, <<"U+1E16">>,
      <<"U+1E18">>, <<"U+1E1A">>, <<"U+1E1C">>, <<"U+1E1E">>, <<"U+1E20">>, <<"U+1E22">>,
      <<"U+1E24">>, <<"U+1E26">>, <<"U+1E28">>, <<"U+1E2A">>, <<"U+1E2C">>, <<"U+1E2E">>,
      <<"U+1E30">>, <<"U+1E32">>, <<"U+1E34">>, <<"U+1E36">>, <<"U+1E38">>, <<"U+1E3A">>,
      <<"U+1E3C">>, <<"U+1E3E">>, <<"U+1E40">>, <<"U+1E42">>, <<"U+1E44">>, <<"U+1E46">>,
      <<"U+1E48">>, <<"U+1E4A">>, <<"U+1E4C">>, <<"U+1E4E">>, <<"U+1E50">>, <<"U+1E52">>,
      <<"U+1E54">>, <<"U+1E56">>, <<"U+1E58">>, <<"U+1E5A">>, <<"U+1E5C">>, <<"U+1E5E">>,
      <<"U+1E60">>, <<"U+1E62">>, <<"U+1E64">>, <<"U+1E66">>, <<"U+1E68">>, <<"U+1E6A">>,
      <<"U+1E6C">>, <<"U+1E6E">>, <<"U+1E70">>, <<"U+1E72">>, <<"U+1E74">>, <<"U+1E76">>,
      <<"U+1E78">>, <<"U+1E7A">>, <<"U+1E7C">>, <<"U+1E7E">>, <<"U+1E80">>, <<"U+1E82">>,
      <<"U+1E84">>, <<"U+1E86">>, <<"U+1E88">>, <<"U+1E8A">>, <<"U+1E8C">>, <<"U+1E8E">>,
      <<"U+1E90">>, <<"U+1E92">>, <<"U+1E94">>, <<"H", "U+0331">>, <<"T", "U+0308">>,
      <<"W", "U+030A">>, <<"Y", "U+030A">>, <<"A", "U+02BE">>, <<"U+1E60">>, <<"U+1EA0">>,
      <<"U+1EA2">>, <<"U+1EA4">>, <<"U+1EA6">>, <<"U+1EA8">>, <<"U+1EAA">>, <<"U+1EAC">>,
      <<"U+1EAE">>, <<"U+1EB0">>, <<"U+1EB2">>, <<"U+1EB4">>, <<"U+1EB6">>, <<"U+1EB8">>,
      <<"U+1EBA">>, <<"U+1EBC">>, <<"U+1EBE">>, <<"U+1EC0">>, <<"U+1EC2">>, <<"U+1EC4">>,
      <<"U+1EC6">>, <<"U+1EC8">>, <<"U+1ECA">>, <<"U+1ECC">>, <<"U+1ECE">>, <<"U+1ED0">>,
      <<"U+1ED2">>, <<"U+1ED4">>, <<"U+1ED6">>, <<"U+1ED8">>, <<"U+1EDA">>, <<"U+1EDC">>,
      <<"U+1EDE">>, <<"U+1EE0">>, <<"U+1EE2">>, <<"U+1EE4">>, <<"U+1EE6">>, <<"U+1EE8">>,
      <<"U+1EEA">>, <<"U+1EEC">>, <<"U+1EEE">>, <<"U+1EF0">>, <<"U+1EF2">>, <<"U+1EF4">>,
      <<"U+1EF6">>, <<"U+1EF8">>, <<"U+1EFA">>, <<"U+1EFC">>, <<"U+1EFE">>, <<"U+1F08">>,
      <<"U+1F09">>, <<"U+1F0A">>, <<"U+1F0B">>, <<"U+1F0C">>, <<"U+1F0D">>, <<"U+1F0E">>,
      <<"U+1F0F">>, <<"U+1F18">>, <<"U+1F19">>, <<"U+1F1A">>, <<"U+1F1B">>, <<"U+1F1C">>,
      <<"U+1F1D">>, <<"U+1F28">>, <<"U+1F29">>, <<"U+1F2A">>, <<"U+1F2B">>, <<"U+1F2C">>,
      <<"U+1F2D">>, <<"U+1F2E">>, <<"U+1F2F">>, <<"U+1F38">>, <<"U+1F39">>, <<"U+1F3A">>,
      <<"U+1F3B">>, <<"U+1F3C">>, <<"U+1F3D">>, <<"U+1F3E">>, <<"U+1F3F">>, <<"U+1F48">>,
      <<"U+1F49">>, <<"U+1F4A">>, <<"U+1F4B">>, <<"U+1F4C">>, <<"U+1F4D">>,
      <<"U+03A5", "U+0313">>, <<"U+1F59">>, <<"U+03A5", "U+0313", "U+0300">>, <<"U+1F5B">>,
      <<"U+03A5", "U+0313", "U+0301">>, <<"U+1F5D">>, <<"U+03A5", "U+0313", "U+0342">>,
      <<"U+1F5F">>, <<"U+1F68">>, <<"U+1F69">>, <<"U+1F6A">>, <<"U+1F6B">>, <<"U+1F6C">>,
      <<"U+1F6D">>, <<"U+1F6E">>, <<"U+1F6F">>, <<"U+1FBA">>, <<"U+1FBB">>, <<"U+1FC8">>,
      <<"U+1FC9">>, <<"U+1FCA">>, <<"U+1FCB">>, <<"U+1FDA">>, <<"U+1FDB">>, <<"U+1FF8">>,
      <<"U+1FF9">>, <<"U+1FEA">>, <<"U+1FEB">>, <<"U+1FFA">>, <<"U+1FFB">>,
      <<"U+1F08", "U+0399">>, <<"U+1F09", "U+0399">>, <<"U+1F0A", "U+0399">>,
      <<"U+1F0B", "U+0399">>, <<"U+1F0C", "U+0399">>, <<"U+1F0D", "U+0399">>,
      <<"U+1F0E", "U+0399">>, <<"U+1F0F", "U+0399">>, <<"U+1F08", "U+0399">>,
      <<"U+1F09", "U+0399">>, <<"U+1F0A", "U+0399">>, <<"U+1F0B", "U+0399">>,
      <<"U+1F0C", "U+0399">>, <<"U+1F0D", "U+0399">>, <<"U+1F0E", "U+0399">>,
      <<"U+1F0F", "U+0399">>, <<"U+1F28", "U+0399">>, <<"U+1F29", "U+0399">>,
      <<"U+1F2A", "U+0399">>, <<"U+1F2B", "U+0399">>, <<"U+1F2C", "U+0399">>,
      <<"U+1F2D", "U+0399">>, <<"U+1F2E", "U+0399">>, <<"U+1F2F", "U+0399">>,
      <<"U+1F28", "U+0399">>, <<"U+1F29", "U+0399">>, <<"U+1F2A", "U+0399">>,
      <<"U+1F2B", "U+0399">>, <<"U+1F2C", "U+0399">>, <<"U+1F2D", "U+0399">>,
      <<"U+1F2E", "U+0399">>, <<"U+1F2F", "U+0399">>, <<"U+1F68", "U+0399">>,
      <<"U+1F69", "U+0399">>, <<"U+1F6A", "U+0399">>, <<"U+1F6B", "U+0399">>,
      <<"U+1F6C", "U+0399">>, <<"U+1F6D", "U+0399">>, <<"U+1F6E", "U+0399">>,
      <<"U+1F6F", "U+0399">>, <<"U+1F68", "U+0399">>, <<"U+1F69", "U+0399">>,
      <<"U+1F6A", "U+0399">>, <<"U+1F6B", "U+0399">>, <<"U+1F6C", "U+0399">>,
      <<"U+1F6D", "U+0399">>, <<"U+1F6E", "U+0399">>, <<"U+1F6F", "U+0399">>, <<"U+1FB8">>,
      <<"U+1FB9">>, <<"U+1FBA", "U+0399">>, <<"U+0391", "U+0399">>, <<"U+0386", "U+0399">>,
      <<"U+0391", "U+0342">>, <<"U+0391", "U+0342", "U+0399">>, <<"U+0391", "U+0399">>,
      <<"U+0399">>, <<"U+1FCA", "U+0399">>, <<"U+0397", "U+0399">>, <<"U+0389", "U+0399">>,
      <<"U+0397", "U+0342">>, <<"U+0397", "U+0342", "U+0399">>, <<"U+0397", "U+0399">>,
      <<"U+1FD8">>, <<"U+1FD9">>, <<"U+0399", "U+0308", "U+0300">>,
      <<"U+0399", "U+0308", "U+0301">>, <<"U+0399", "U+0342">>,
      <<"U+0399", "U+0308", "U+0342">>, <<"U+1FE8">>, <<"U+1FE9">>,
      <<"U+03A5", "U+0308", "U+0300">>, <<"U+03A5", "U+0308", "U+0301">>,
      <<"U+03A1", "U+0313">>, <<"U+1FEC">>, <<"U+03A5", "U+0342">>,
      <<"U+03A5", "U+0308", "U+0342">>, <<"U+1FFA", "U+0399">>, <<"U+03A9", "U+0399">>,
      <<"U+038F", "U+0399">>, <<"U+03A9", "U+0342">>, <<"U+03A9", "U+0342", "U+0399">>,
      <<"U+03A9", "U+0399">>, <<"U+2132">>, <<"U+2160">>, <<"U+2161">>, <<"U+2162">>,
      <<"U+2163">>, <<"U+2164">>, <<"U+2165">>, <<"U+2166">>, <<"U+2167">>, <<"U+2168">>,
      <<"U+2169">>, <<"U+216A">>, <<"U+216B">>, <<"U+216C">>, <<"U+216D">>, <<"U+216E">>,
      <<"U+216F">>, <<"U+2183">>, <<"U+24B6">>, <<"U+24B7">>, <<"U+24B8">>, <<"U+24B9">>,
      <<"U+24BA">>, <<"U+24BB">>, <<"U+24BC">>, <<"U+24BD">>, <<"U+24BE">>, <<"U+24BF">>,
      <<"U+24C0">>, <<"U+24C1">>, <<"U+24C2">>, <<"U+24C3">>, <<"U+24C4">>, <<"U+24C5">>,
      <<"U+24C6">>, <<"U+24C7">>, <<"U+24C8">>, <<"U+24C9">>, <<"U+24CA">>, <<"U+24CB">>,
      <<"U+24CC">>, <<"U+24CD">>, <<"U+24CE">>, <<"U+24CF">>, <<"U+2C00">>, <<"U+2C01">>,
      <<"U+2C02">>, <<"U+2C03">>, <<"U+2C04">>, <<"U+2C05">>, <<"U+2C06">>, <<"U+2C07">>,
      <<"U+2C08">>, <<"U+2C09">>, <<"U+2C0A">>, <<"U+2C0B">>, <<"U+2C0C">>, <<"U+2C0D">>,
      <<"U+2C0E">>, <<"U+2C0F">>, <<"U+2C10">>, <<"U+2C11">>, <<"U+2C12">>, <<"U+2C13">>,
      <<"U+2C14">>, <<"U+2C15">>, <<"U+2C16">>, <<"U+2C17">>, <<"U+2C18">>, <<"U+2C19">>,
      <<"U+2C1A">>, <<"U+2C1B">>, <<"U+2C1C">>, <<"U+2C1D">>, <<"U+2C1E">>, <<"U+2C1F">>,
      <<"U+2C20">>, <<"U+2C21">>, <<"U+2C22">>, <<"U+2C23">>, <<"U+2C24">>, <<"U+2C25">>,
      <<"U+2C26">>, <<"U+2C27">>, <<"U+2C28">>, <<"U+2C29">>, <<"U+2C2A">>, <<"U+2C2B">>,
      <<"U+2C2C">>, <<"U+2C2D">>, <<"U+2C2E">>, <<"U+2C2F">>, <<"U+2C60">>, <<"U+023A">>,
      <<"U+023E">>, <<"U+2C67">>, <<"U+2C69">>, <<"U+2C6B">>, <<"U+2C72">>, <<"U+2C75">>,
      <<"U+2C80">>, <<"U+2C82">>, <<"U+2C84">>, <<"U+2C86">>, <<"U+2C88">>, <<"U+2C8A">>,
      <<"U+2C8C">>, <<"U+2C8E">>, <<"U+2C90">>, <<"U+2C92">>, <<"U+2C94">>, <<"U+2C96">>,
      <<"U+2C98">>, <<"U+2C9A">>, <<"U+2C9C">>, <<"U+2C9E">>, <<"U+2CA0">>, <<"U+2CA2">>,
      <<"U+2CA4">>, <<"U+2CA6">>, <<"U+2CA8">>, <<"U+2CAA">>, <<"U+2CAC">>, <<"U+2CAE">>,
      <<"U+2CB0">>, <<"U+2CB2">>, <<"U+2CB4">>, <<"U+2CB6">>, <<"U+2CB8">>, <<"U+2CBA">>,
      <<"U+2CBC">>, <<"U+2CBE">>, <<"U+2CC0">>, <<"U+2CC2">>, <<"U+2CC4">>, <<"U+2CC6">>,
      <<"U+2CC8">>, <<"U+2CCA">>, <<"U+2CCC">>, <<"U+2CCE">>, <<"U+2CD0">>, <<"U+2CD2">>,
      <<"U+2CD4">>, <<"U+2CD6">>, <<"U+2CD8">>, <<"U+2CDA">>, <<"U+2CDC">>, <<"U+2CDE">>,
      <<"U+2CE0">>, <<"U+2CE2">>, <<"U+2CEB">>, <<"U+2CED">>, <<"U+2CF2">>, <<"U+10A0">>,
      <<"U+10A1">>, <<"U+10A2">>, <<"U+10A3">>, <<"U+10A4">>, <<"U+10A5">>, <<"U+10A6">>,
      <<"U+10A7">>, <<"U+10A8">>, <<"U+10A9">>, <<"U+10AA">>, <<"U+10AB">>, <<"U+10AC">>,
      <<"U+10AD">>, <<"U+10AE">>, <<"U+10AF">>, <<"U+10B0">>, <<"U+10B1">>, <<"U+10B2">>,
      <<"U+10B3">>, <<"U+10B4">>, <<"U+10B5">>, <<"U+10B6">>, <<"U+10B7">>, <<"U+10B8">>,
      <<"U+10B9">>, <<"U+10BA">>, <<"U+10BB">>, <<"U+10BC">>, <<"U+10BD">>, <<"U+10BE">>,
      <<"U+10BF">>, <<"U+10C0">>, <<"U+10C1">>, <<"U+10C2">>, <<"U+10C3">>, <<"U+10C4">>,
      <<"U+10C5">>, <<"U+10C7">>, <<"U+10CD">>, <<"U+A640">>, <<"U+A642">>, <<"U+A644">>,
      <<"U+A646">>, <<"U+A648">>, <<"U+A64A">>, <<"U+A64C">>, <<"U+A64E">>, <<"U+A650">>,
      <<"U+A652">>, <<"U+A654">>, <<"U+A656">>, <<"U+A658">>, <<"U+A65A">>, <<"U+A65C">>,
      <<"U+A65E">>, <<"U+A660">>, <<"U+A662">>, <<"U+A664">>, <<"U+A666">>, <<"U+A668">>,
      <<"U+A66A">>, <<"U+A66C">>, <<"U+A680">>, <<"U+A682">>, <<"U+A684">>, <<"U+A686">>,
      <<"U+A688">>, <<"U+A68A">>, <<"U+A68C">>, <<"U+A68E">>, <<"U+A690">>, <<"U+A692">>,
      <<"U+A694">>, <<"U+A696">>, <<"U+A698">>, <<"U+A69A">>, <<"U+A722">>, <<"U+A724">>,
      <<"U+A726">>, <<"U+A728">>, <<"U+A72A">>, <<"U+A72C">>, <<"U+A72E">>, <<"U+A732">>,
      <<"U+A734">>, <<"U+A736">>, <<"U+A738">>, <<"U+A73A">>, <<"U+A73C">>, <<"U+A73E">>,
      <<"U+A740">>, <<"U+A742">>, <<"U+A744">>, <<"U+A746">>, <<"U+A748">>, <<"U+A74A">>,
      <<"U+A74C">>, <<"U+A74E">>, <<"U+A750">>, <<"U+A752">>, <<"U+A754">>, <<"U+A756">>,
      <<"U+A758">>, <<"U+A75A">>, <<"U+A75C">>, <<"U+A75E">>, <<"U+A760">>, <<"U+A762">>,
      <<"U+A764">>, <<"U+A766">>, <<"U+A768">>, <<"U+A76A">>, <<"U+A76C">>, <<"U+A76E">>,
      <<"U+A779">>, <<"U+A77B">>, <<"U+A77E">>, <<"U+A780">>, <<"U+A782">>, <<"U+A784">>,
      <<"U+A786">>, <<"U+A78B">>, <<"U+A790">>, <<"U+A792">>, <<"U+A7C4">>, <<"U+A796">>,
      <<"U+A798">>, <<"U+A79A">>, <<"U+A79C">>, <<"U+A79E">>, <<"U+A7A0">>, <<"U+A7A2">>,
      <<"U+A7A4">>, <<"U+A7A6">>, <<"U+A7A8">>, <<"U+A7B4">>, <<"U+A7B6">>, <<"U+A7B8">>,
      <<"U+A7BA">>, <<"U+A7BC">>, <<"U+A7BE">>, <<"U+A7C0">>, <<"U+A7C2">>, <<"U+A7C7">>,
      <<"U+A7C9">>, <<"U+A7D0">>, <<"U+A7D6">>, <<"U+A7D8">>, <<"U+A7F5">>, <<"U+A7B3">>,
      <<"U+13A0">>, <<"U+13A1">>, <<"U+13A2">>, <<"U+13A3">>, <<"U+13A4">>, <<"U+13A5">>,
      <<"U+13A6">>, <<"U+13A7">>, <<"U+13A8">>, <<"U+13A9">>, <<"U+13AA">>, <<"U+13AB">>,
      <<"U+13AC">>, <<"U+13AD">>, <<"U+13AE">>, <<"U+13AF">>, <<"U+13B0">>, <<"U+13B1">>,
      <<"U+13B2">>, <<"U+13B3">>, <<"U+13B4">>, <<"U+13B5">>, <<"U+13B6">>, <<"U+13B7">>,
      <<"U+13B8">>, <<"U+13B9">>, <<"U+13BA">>, <<"U+13BB">>, <<"U+13BC">>, <<"U+13BD">>,
      <<"U+13BE">>, <<"U+13BF">>, <<"U+13C0">>, <<"U+13C1">>, <<"U+13C2">>, <<"U+13C3">>,
      <<"U+13C4">>, <<"U+13C5">>, <<"U+13C6">>, <<"U+13C7">>, <<"U+13C8">>, <<"U+13C9">>,
      <<"U+13CA">>, <<"U+13CB">>, <<"U+13CC">>, <<"U+13CD">>, <<"U+13CE">>, <<"U+13CF">>,
      <<"U+13D0">>, <<"U+13D1">>, <<"U+13D2">>, <<"U+13D3">>, <<"U+13D4">>, <<"U+13D5">>,
      <<"U+13D6">>, <<"U+13D7">>, <<"U+13D8">>, <<"U+13D9">>, <<"U+13DA">>, <<"U+13DB">>,
      <<"U+13DC">>, <<"U+13DD">>, <<"U+13DE">>, <<"U+13DF">>, <<"U+13E0">>, <<"U+13E1">>,
      <<"U+13E2">>, <<"U+13E3">>, <<"U+13E4">>, <<"U+13E5">>, <<"U+13E6">>, <<"U+13E7">>,
      <<"U+13E8">>, <<"U+13E9">>, <<"U+13EA">>, <<"U+13EB">>, <<"U+13EC">>, <<"U+13ED">>,
      <<"U+13EE">>, <<"U+13EF">>, <<"F", "F">>, <<"F", "I">>, <<"F", "L">>, <<"F", "F", "I">>,
      <<"F", "F", "L">>, <<"S", "T">>, <<"S", "T">>, <<"U+0544", "U+0546">>,
      <<"U+0544", "U+0535">>, <<"U+0544", "U+053B">>, <<"U+054E", "U+0546">>,
      <<"U+0544", "U+053D">>, <<"U+FF21">>, <<"U+FF22">>, <<"U+FF23">>, <<"U+FF24">>,
      <<"U+FF25">>, <<"U+FF26">>, <<"U+FF27">>, <<"U+FF28">>, <<"U+FF29">>, <<"U+FF2A">>,
      <<"U+FF2B">>, <<"U+FF2C">>, <<"U+FF2D">>, <<"U+FF2E">>, <<"U+FF2F">>, <<"U+FF30">>,
      <<"U+FF31">>, <<"U+FF32">>, <<"U+FF33">>, <<"U+FF34">>, <<"U+FF35">>, <<"U+FF36">>,
      <<"U+FF37">>, <<"U+FF38">>, <<"U+FF39">>, <<"U+FF3A">>,
      <<"U+A7DC">>, <<"U+A7CB">>, <<"U+1C89">>, <<"U+A7CC">>,
      <<"U+A7CE">>, <<"U+A7D2">>, <<"U+A7D4">>, <<"U+A7DA">>>>

\* What toUpperCase makes of each code unit of LowerCase.
UpperCaseOf ==
    [c \in {LowerCase[i] : i \in 1..Len(LowerCase)} |->
        UpperCase[CHOOSE i \in 1..Len(LowerCase) : LowerCase[i] = c]]

\* String.prototype.toUpperCase on a string of one code unit: the result is
\* a string, of more than one character for some ("ß" gives "SS").
toUpperCase(c) == IF c \in DOMAIN UpperCaseOf THEN UpperCaseOf[c] ELSE <<c>>

DigitOf == <<"0", "1", "2", "3", "4", "5", "6", "7", "8", "9">>

\* String(n) / `${n}` for a natural number.
RECURSIVE NumberToString(_)
NumberToString(n) ==
    IF n < 10 THEN <<DigitOf[n + 1]>>
    ELSE NumberToString(n \div 10) \o <<DigitOf[(n % 10) + 1]>>

\* Array.prototype.join: null and undefined elements render as "".
RECURSIVE Join(_, _)
Join(parts, sep) ==
    IF parts = <<>> THEN <<>>
    ELSE LET h == IF Head(parts) = Null THEN <<>> ELSE Head(parts)
         IN  IF Len(parts) = 1 THEN h ELSE h \o sep \o Join(Tail(parts), sep)

\* Array.prototype.filter(Boolean) on an array of strings and nulls: null
\* and the empty string are falsy.
FilterBoolean(parts) == SelectSeq(parts, LAMBDA t : t # Null /\ t # <<>>)

\* String.prototype.split on a one-character separator.
RECURSIVE Split(_, _)
Split(str, sep) ==
    IF \A i \in 1..Len(str) : str[i] # sep THEN <<str>>
    ELSE LET i == CHOOSE i \in 1..Len(str) :
                      str[i] = sep /\ \A j \in 1..(i - 1) : str[j] # sep
         IN  <<SubSeq(str, 1, i - 1)>> \o Split(SubSeq(str, i + 1, Len(str)), sep)

StartsWith(str, pre) ==
    Len(pre) <= Len(str) /\ SubSeq(str, 1, Len(pre)) = pre

EndsWith(str, suf) ==
    Len(suf) <= Len(str) /\ SubSeq(str, Len(str) - Len(suf) + 1, Len(str)) = suf

OccursAt(str, pat, i) ==
    i + Len(pat) - 1 <= Len(str) /\ SubSeq(str, i, i + Len(pat) - 1) = pat

\* The grave accent (U+0060), written by its code point as the code units
\* above U+00FF are: a string of this module cannot hold the character.
GraveAccent == "U+0060"

\* GetSubstitution of String.prototype.replace for a string pattern, which
\* has no captures: in the replacement "$$" stands for "$", "$&" for the
\* matched text, "$" with a grave accent for the text in front of the match
\* and "$" with an apostrophe for the text behind it; every other character
\* stands for itself, a "$" before a digit or "<" included.
RECURSIVE GetSubstitution(_, _, _, _)
GetSubstitution(rep, before, matched, after) ==
    IF rep = <<>> THEN <<>>
    ELSE IF Head(rep) = "$" /\ Len(rep) >= 2 /\ rep[2] \in {"$", "&", GraveAccent, "'"}
    THEN (CASE rep[2] = "$" -> <<"$">>
            [] rep[2] = "&" -> matched
            [] rep[2] = GraveAccent -> before
            [] OTHER -> after)
             \o GetSubstitution(SubSeq(rep, 3, Len(rep)), before, matched, after)
    ELSE <<Head(rep)>> \o GetSubstitution(Tail(rep), before, matched, after)

\* String.prototype.replace(pattern, replacement) with a string pattern:
\* the first occurrence only, replaced by the substitution of the
\* replacement.
Replace(str, pat, rep) ==
    IF \E i \in 1..(Len(str) + 1) : OccursAt(str, pat, i)
    THEN LET i == CHOOSE i \in 1..(Len(str) + 1) :
                      OccursAt(str, pat, i)
                      /\ \A j \in 1..(i - 1) : ~OccursAt(str, pat, j)
             before == SubSeq(str, 1, i - 1)
             after == SubSeq(str, i + Len(pat), Len(str))
         IN  before \o GetSubstitution(rep, before, pat, after) \o after
    ELSE str

IsWhiteSpace(c) == c \in {SP, NL}

\* String.prototype.trim.
RECURSIVE TrimStart(_)
TrimStart(str) ==
    IF str # <<>> /\ IsWhiteSpace(Head(str)) THEN TrimStart(Tail(str)) ELSE str

RECURSIVE TrimEnd(_)
TrimEnd(str) ==
    IF str # <<>> /\ IsWhiteSpace(str[Len(str)])
    THEN TrimEnd(SubSeq(str, 1, Len(str) - 1))
    ELSE str

Trim(str) == TrimEnd(TrimStart(str))

(***************************************************************************)
(* Name formatting                                                         *)
(***************************************************************************)

\* part.charAt(0).toUpperCase() + part.slice(1)
Capitalize(part) ==
    IF part = <<>> THEN <<>> ELSE toUpperCase(Head(part)) \o Tail(part)

RECURSIVE MapCapitalize(_)
MapCapitalize(parts) ==
    IF parts = <<>> THEN <<>>
    ELSE <<Capitalize(Head(parts))>> \o MapCapitalize(Tail(parts))

\* toPascalCase that joins the parts with the "." it split them on.
toPascalCaseKeepingDots(value) == Join(MapCapitalize(Split(value, ".")), <<".">>)

toPascalCase(value) == Join(MapCapitalize(Split(value, ".")), <<>>)

\* inflection 3.0.2, uncountableWords: the words singularize and pluralize
\* return as they are.
uncountableWords ==
    {<<"a", "c", "c", "o", "m", "m", "o", "d", "a", "t", "i", "o", "n">>,
     <<"a", "d", "u", "l", "t", "h", "o", "o", "d">>,
     <<"a", "d", "v", "e", "r", "t", "i", "s", "i", "n", "g">>,
     <<"a", "d", "v", "i", "c", "e">>, <<"a", "g", "g", "r", "e", "s", "s", "i", "o", "n">>,
     <<"a", "i", "d">>, <<"a", "i", "r">>, <<"a", "i", "r", "c", "r", "a", "f", "t">>,
     <<"a", "l", "c", "o", "h", "o", "l">>, <<"a", "n", "g", "e", "r">>,
     <<"a", "p", "p", "l", "a", "u", "s", "e">>,
     <<"a", "r", "i", "t", "h", "m", "e", "t", "i", "c">>,
     <<"a", "s", "s", "i", "s", "t", "a", "n", "c", "e">>,
     <<"a", "t", "h", "l", "e", "t", "i", "c", "s">>, <<"b", "a", "c", "o", "n">>,
     <<"b", "a", "g", "g", "a", "g", "e">>, <<"b", "e", "e", "f">>,
     <<"b", "i", "o", "l", "o", "g", "y">>, <<"b", "l", "o", "o", "d">>,
     <<"b", "o", "t", "a", "n", "y">>, <<"b", "r", "e", "a", "d">>,
     <<"b", "u", "t", "t", "e", "r">>, <<"c", "a", "r", "b", "o", "n">>,
     <<"c", "a", "r", "d", "b", "o", "a", "r", "d">>, <<"c", "a", "s", "h">>,
     <<"c", "h", "a", "l", "k">>, <<"c", "h", "a", "o", "s">>, <<"c", "h", "e", "s", "s">>,
     <<"c", "r", "o", "s", "s", "r", "o", "a", "d", "s">>,
     <<"c", "o", "u", "n", "t", "r", "y", "s", "i", "d", "e">>,
     <<"d", "a", "n", "c", "i", "n", "g">>, <<"d", "e", "e", "r">>,
     <<"d", "i", "g", "n", "i", "t", "y">>, <<"d", "i", "r", "t">>, <<"d", "u", "s", "t">>,
     <<"e", "c", "o", "n", "o", "m", "i", "c", "s">>,
     <<"e", "d", "u", "c", "a", "t", "i", "o", "n">>,
     <<"e", "l", "e", "c", "t", "r", "i", "c", "i", "t", "y">>,
     <<"e", "n", "g", "i", "n", "e", "e", "r", "i", "n", "g">>,
     <<"e", "n", "j", "o", "y", "m", "e", "n", "t">>, <<"e", "n", "v", "y">>,
     <<"e", "q", "u", "i", "p", "m", "e", "n", "t">>, <<"e", "t", "h", "i", "c", "s">>,
     <<"e", "v", "i", "d", "e", "n", "c", "e">>,
     <<"e", "v", "o", "l", "u", "t", "i", "o", "n">>, <<"f", "a", "m", "e">>,
     <<"f", "i", "c", "t", "i", "o", "n">>, <<"f", "l", "o", "u", "r">>, <<"f", "l", "u">>,
     <<"f", "o", "o", "d">>, <<"f", "u", "e", "l">>, <<"f", "u", "n">>,
     <<"f", "u", "r", "n", "i", "t", "u", "r", "e">>, <<"g", "a", "l", "l", "o", "w", "s">>,
     <<"g", "a", "r", "b", "a", "g", "e">>, <<"g", "a", "r", "l", "i", "c">>,
     <<"g", "e", "n", "e", "t", "i", "c", "s">>, <<"g", "o", "l", "d">>, <<"g", "o", "l", "f">>,
     <<"g", "o", "s", "s", "i", "p">>, <<"g", "r", "a", "m", "m", "a", "r">>,
     <<"g", "r", "a", "t", "i", "t", "u", "d", "e">>, <<"g", "r", "i", "e", "f">>,
     <<"g", "u", "i", "l", "t">>, <<"g", "y", "m", "n", "a", "s", "t", "i", "c", "s">>,
     <<"h", "a", "p", "p", "i", "n", "e", "s", "s">>,
     <<"h", "a", "r", "d", "w", "a", "r", "e">>, <<"h", "a", "r", "m">>, <<"h", "a", "t", "e">>,
     <<"h", "a", "t", "r", "e", "d">>, <<"h", "e", "a", "l", "t", "h">>, <<"h", "e", "a", "t">>,
     <<"h", "e", "l", "p">>, <<"h", "o", "m", "e", "w", "o", "r", "k">>,
     <<"h", "o", "n", "e", "s", "t", "y">>, <<"h", "o", "n", "e", "y">>,
     <<"h", "o", "s", "p", "i", "t", "a", "l", "i", "t", "y">>,
     <<"h", "o", "u", "s", "e", "w", "o", "r", "k">>, <<"h", "u", "m", "o", "u", "r">>,
     <<"h", "u", "n", "g", "e", "r">>, <<"h", "y", "d", "r", "o", "g", "e", "n">>,
     <<"i", "c", "e">>, <<"i", "m", "p", "o", "r", "t", "a", "n", "c", "e">>,
     <<"i", "n", "f", "l", "a", "t", "i", "o", "n">>,
     <<"i", "n", "f", "o", "r", "m", "a", "t", "i", "o", "n">>,
     <<"i", "n", "n", "o", "c", "e", "n", "c", "e">>, <<"i", "r", "o", "n">>,
     <<"i", "r", "o", "n", "y">>, <<"j", "a", "m">>, <<"j", "e", "w", "e", "l", "r", "y">>,
     <<"j", "u", "d", "o">>, <<"k", "a", "r", "a", "t", "e">>,
     <<"k", "n", "o", "w", "l", "e", "d", "g", "e">>, <<"l", "a", "c", "k">>,
     <<"l", "a", "u", "g", "h", "t", "e", "r">>, <<"l", "a", "v", "a">>,
     <<"l", "e", "a", "t", "h", "e", "r">>, <<"l", "e", "i", "s", "u", "r", "e">>,
     <<"l", "i", "g", "h", "t", "n", "i", "n", "g">>,
     <<"l", "i", "n", "g", "u", "i", "n", "e">>, <<"l", "i", "n", "g", "u", "i", "n", "i">>,
     <<"l", "i", "n", "g", "u", "i", "s", "t", "i", "c", "s">>,
     <<"l", "i", "t", "e", "r", "a", "t", "u", "r", "e">>, <<"l", "i", "t", "t", "e", "r">>,
     <<"l", "i", "v", "e", "s", "t", "o", "c", "k">>, <<"l", "o", "g", "i", "c">>,
     <<"l", "o", "n", "e", "l", "i", "n", "e", "s", "s">>, <<"l", "u", "c", "k">>,
     <<"l", "u", "g", "g", "a", "g", "e">>, <<"m", "a", "c", "a", "r", "o", "n", "i">>,
     <<"m", "a", "c", "h", "i", "n", "e", "r", "y">>, <<"m", "a", "g", "i", "c">>,
     <<"m", "a", "n", "a", "g", "e", "m", "e", "n", "t">>,
     <<"m", "a", "n", "k", "i", "n", "d">>, <<"m", "a", "r", "b", "l", "e">>,
     <<"m", "a", "t", "h", "e", "m", "a", "t", "i", "c", "s">>,
     <<"m", "a", "y", "o", "n", "n", "a", "i", "s", "e">>,
     <<"m", "e", "a", "s", "l", "e", "s">>, <<"m", "e", "t", "h", "a", "n", "e">>,
     <<"m", "i", "l", "k">>, <<"m", "i", "n", "u", "s">>, <<"m", "o", "n", "e", "y">>,
     <<"m", "u", "d">>, <<"m", "u", "s", "i", "c">>, <<"m", "u", "m", "p", "s">>,
     <<"n", "a", "t", "u", "r", "e">>, <<"n", "e", "w", "s">>,
     <<"n", "i", "t", "r", "o", "g", "e", "n">>, <<"n", "o", "n", "s", "e", "n", "s", "e">>,
     <<"n", "u", "r", "t", "u", "r", "e">>, <<"n", "u", "t", "r", "i", "t", "i", "o", "n">>,
     <<"o", "b", "e", "d", "i", "e", "n", "c", "e">>, <<"o", "b", "e", "s", "i", "t", "y">>,
     <<"o", "x", "y", "g", "e", "n">>, <<"p", "a", "s", "t", "a">>,
     <<"p", "a", "t", "i", "e", "n", "c", "e">>, <<"p", "h", "y", "s", "i", "c", "s">>,
     <<"p", "o", "e", "t", "r", "y">>, <<"p", "o", "l", "l", "u", "t", "i", "o", "n">>,
     <<"p", "o", "v", "e", "r", "t", "y">>, <<"p", "r", "i", "d", "e">>,
     <<"p", "s", "y", "c", "h", "o", "l", "o", "g", "y">>,
     <<"p", "u", "b", "l", "i", "c", "i", "t", "y">>,
     <<"p", "u", "n", "c", "t", "u", "a", "t", "i", "o", "n">>,
     <<"q", "u", "a", "r", "t", "z">>, <<"r", "a", "c", "i", "s", "m">>,
     <<"r", "e", "l", "a", "x", "a", "t", "i", "o", "n">>,
     <<"r", "e", "l", "i", "a", "b", "i", "l", "i", "t", "y">>,
     <<"r", "e", "s", "e", "a", "r", "c", "h">>, <<"r", "e", "s", "p", "e", "c", "t">>,
     <<"r", "e", "v", "e", "n", "g", "e">>, <<"r", "i", "c", "e">>,
     <<"r", "u", "b", "b", "i", "s", "h">>, <<"r", "u", "m">>, <<"s", "a", "f", "e", "t", "y">>,
     <<"s", "c", "e", "n", "e", "r", "y">>, <<"s", "e", "a", "f", "o", "o", "d">>,
     <<"s", "e", "a", "s", "i", "d", "e">>, <<"s", "e", "r", "i", "e", "s">>,
     <<"s", "h", "a", "m", "e">>, <<"s", "h", "e", "e", "p">>,
     <<"s", "h", "o", "p", "p", "i", "n", "g">>, <<"s", "l", "e", "e", "p">>,
     <<"s", "m", "o", "k", "e">>, <<"s", "m", "o", "k", "i", "n", "g">>, <<"s", "n", "o", "w">>,
     <<"s", "o", "a", "p">>, <<"s", "o", "f", "t", "w", "a", "r", "e">>, <<"s", "o", "i", "l">>,
     <<"s", "p", "a", "g", "h", "e", "t", "t", "i">>, <<"s", "p", "e", "c", "i", "e", "s">>,
     <<"s", "t", "e", "a", "m">>, <<"s", "t", "u", "f", "f">>,
     <<"s", "t", "u", "p", "i", "d", "i", "t", "y">>,
     <<"s", "u", "n", "s", "h", "i", "n", "e">>, <<"s", "y", "m", "m", "e", "t", "r", "y">>,
     <<"t", "e", "n", "n", "i", "s">>, <<"t", "h", "i", "r", "s", "t">>,
     <<"t", "h", "u", "n", "d", "e", "r">>, <<"t", "i", "m", "b", "e", "r">>,
     <<"t", "r", "a", "f", "f", "i", "c">>,
     <<"t", "r", "a", "n", "s", "p", "o", "r", "t", "a", "t", "i", "o", "n">>,
     <<"t", "r", "u", "s", "t">>, <<"u", "n", "d", "e", "r", "w", "e", "a", "r">>,
     <<"u", "n", "e", "m", "p", "l", "o", "y", "m", "e", "n", "t">>,
     <<"u", "n", "i", "t", "y">>, <<"v", "a", "l", "i", "d", "i", "t", "y">>,
     <<"v", "e", "a", "l">>, <<"v", "e", "g", "e", "t", "a", "t", "i", "o", "n">>,
     <<"v", "e", "g", "e", "t", "a", "r", "i", "a", "n", "i", "s", "m">>,
     <<"v", "e", "n", "g", "e", "a", "n", "c", "e">>,
     <<"v", "i", "o", "l", "e", "n", "c", "e">>, <<"v", "i", "t", "a", "l", "i", "t", "y">>,
     <<"w", "a", "r", "m", "t", "h">>, <<"w", "e", "a", "l", "t", "h">>,
     <<"w", "e", "a", "t", "h", "e", "r">>, <<"w", "e", "l", "f", "a", "r", "e">>,
     <<"w", "h", "e", "a", "t">>, <<"w", "i", "l", "d", "l", "i", "f", "e">>,
     <<"w", "i", "s", "d", "o", "m">>, <<"y", "o", "g", "a">>, <<"z", "i", "n", "c">>,
     <<"z", "o", "o", "l", "o", "g", "y">>}

\* Canonicalize of a regular expression with the i flag and no u flag, as
\* far as its ASCII patterns can tell: a pattern letter matches the letter in
\* either case and no other code unit (a code unit of U+0080 and above is
\* never compared as an ASCII one).  The capital letters A to Z are the first
\* 26 of UpperCase.
Canonicalize(c) ==
    IF \E i \in 1..26 : UpperCase[i] = <<c>>
    THEN LowerCase[CHOOSE i \in 1..26 : UpperCase[i] = <<c>>]
    ELSE c

\* String.prototype.toLocaleLowerCase in a locale without special casing, as
\* far as the comparison with the ASCII words of uncountableWords can tell:
\* the capital letters A to Z and the Kelvin sign (U+212A, "k") are the code
\* units that give an ASCII small letter.
toLocaleLowerCase(str) ==
    [i \in 1..Len(str) |-> IF str[i] = "U+212A" THEN "k" ELSE Canonicalize(str[i])]

\* inflection 3.0.2, singularRules, each rule applied to str: whether
\* str.match(rule[0]) finds a match and what the rule returns for it,
\* str.replace(rule[0], rule[1]), or str itself for a rule without a
\* replacement (a word that is singular already).  A regular expression ends
\* in "$" and so matches the end of str; what it captures is put back as it
\* stands in str, and what the replacement adds is in small letters.
singularRules(str) ==
    LET n == Len(str)
        Vowels == {"a", "e", "i", "o", "u", "y"}
        Cut(k, tail) == SubSeq(str, 1, n - k) \o tail
        Rules(low) ==
            LET Is(words) == low \in words
                Ends(suf) == EndsWith(low, suf)
                EndsAny(sufs) == \E suf \in sufs : EndsWith(low, suf)
                \* the k-th code unit from the end is there and none of chars
                NotIn(k, chars) == n >= k /\ low[n - k + 1] \notin chars
                Rule(matches, result) ==
                    [matches |-> matches, result |-> IF matches THEN result ELSE str]
            IN  <<
            \* singular.man /^(m|wom)an$/i
            Rule(Is({<<"m", "a", "n">>, <<"w", "o", "m", "a", "n">>}), str),
            \* singular.person /(pe)rson$/i
            Rule(Ends(<<"p", "e", "r", "s", "o", "n">>), str),
            \* singular.child /(child)$/i
            Rule(Ends(<<"c", "h", "i", "l", "d">>), str),
            \* singular.drive /(drive)$/i
            Rule(Ends(<<"d", "r", "i", "v", "e">>), str),
            \* singular.ox /^(ox)$/i
            Rule(Is({<<"o", "x">>}), str),
            \* singular.axis /(ax|test)is$/i
            Rule(EndsAny({<<"a", "x", "i", "s">>, <<"t", "e", "s", "t", "i", "s">>}), str),
            \* singular.octopus /(octop|vir)us$/i
            Rule(EndsAny({<<"o", "c", "t", "o", "p", "u", "s">>,
                  <<"v", "i", "r", "u", "s">>}), str),
            \* singular.alias /(alias|status|canvas|campus)$/i
            Rule(EndsAny({<<"a", "l", "i", "a", "s">>, <<"s", "t", "a", "t", "u", "s">>,
                  <<"c", "a", "n", "v", "a", "s">>, <<"c", "a", "m", "p", "u", "s">>}), str),
            \* singular.summons /^(summons|bonus)$/i
            Rule(Is({<<"s", "u", "m", "m", "o", "n", "s">>, <<"b", "o", "n", "u", "s">>}), str),
            \* singular.bus /(bu)s$/i
            Rule(Ends(<<"b", "u", "s">>), str),
            \* singular.buffalo /(buffal|tomat|potat)o$/i
            Rule(EndsAny({<<"b", "u", "f", "f", "a", "l", "o">>,
                  <<"t", "o", "m", "a", "t", "o">>, <<"p", "o", "t", "a", "t", "o">>}), str),
            \* singular.tium /([ti])um$/i
            Rule(EndsAny({<<"t", "u", "m">>, <<"i", "u", "m">>}), str),
            \* singular.sis /sis$/i
            Rule(Ends(<<"s", "i", "s">>), str),
            \* singular.ffe /(?:([^f])fe|([lr])f)$/i
            Rule((Ends(<<"f", "e">>) /\ NotIn(3, {"f"})) \/ EndsAny({<<"l", "f">>,
                  <<"r", "f">>}), str),
            \* singular.hive /(hi|ti)ve$/i
            Rule(EndsAny({<<"h", "i", "v", "e">>, <<"t", "i", "v", "e">>}), str),
            \* singular.aeiouyy /([^aeiouy]|qu)y$/i
            Rule((Ends(<<"y">>) /\ NotIn(2, Vowels)) \/ Ends(<<"q", "u", "y">>), str),
            \* singular.x /(x|ch|ss|sh)$/i
            Rule(EndsAny({<<"x">>, <<"c", "h">>, <<"s", "s">>, <<"s", "h">>}), str),
            \* singular.matrix /(matr)ix$/i
            Rule(Ends(<<"m", "a", "t", "r", "i", "x">>), str),
            \* singular.mouse /([m|l])ouse$/i
            Rule(EndsAny({<<"m", "o", "u", "s", "e">>, <<"|", "o", "u", "s", "e">>,
                  <<"l", "o", "u", "s", "e">>}), str),
            \* singular.foot /^foot$/i
            Rule(Is({<<"f", "o", "o", "t">>}), str),
            \* singular.tooth /^tooth$/i
            Rule(Is({<<"t", "o", "o", "t", "h">>}), str),
            \* singular.goose /^goose$/i
            Rule(Is({<<"g", "o", "o", "s", "e">>}), str),
            \* singular.quiz /(quiz)$/i
            Rule(Ends(<<"q", "u", "i", "z">>), str),
            \* singular.whereas /^(whereas)$/i
            Rule(Is({<<"w", "h", "e", "r", "e", "a", "s">>}), str),
            \* singular.criterion /^(criteri)on$/i
            Rule(Is({<<"c", "r", "i", "t", "e", "r", "i", "o", "n">>}), str),
            \* singular.genus /^genus$/i
            Rule(Is({<<"g", "e", "n", "u", "s">>}), str),
            \* plural.men /^(m|wom)en$/i, '$1an'
            Rule(Is({<<"m", "e", "n">>, <<"w", "o", "m", "e", "n">>}),
                 Cut(2, <<"a", "n">>)),
            \* plural.people /(pe)ople$/i, '$1rson'
            Rule(Ends(<<"p", "e", "o", "p", "l", "e">>),
                 Cut(4, <<"r", "s", "o", "n">>)),
            \* plural.children /(child)ren$/i, '$1'
            Rule(Ends(<<"c", "h", "i", "l", "d", "r", "e", "n">>),
                 Cut(3, <<>>)),
            \* plural.databases /(database)s$/i, '$1'
            Rule(Ends(<<"d", "a", "t", "a", "b", "a", "s", "e", "s">>),
                 Cut(1, <<>>)),
            \* plural.drives /(drive)s$/i, '$1'
            Rule(Ends(<<"d", "r", "i", "v", "e", "s">>),
                 Cut(1, <<>>)),
            \* plural.genera /^genera$/i, 'genus'
            Rule(Is({<<"g", "e", "n", "e", "r", "a">>}),
                 <<"g", "e", "n", "u", "s">>),
            \* plural.criteria /^(criteri)a$/i, '$1on'
            Rule(Is({<<"c", "r", "i", "t", "e", "r", "i", "a">>}),
                 Cut(1, <<"o", "n">>)),
            \* plural.tia /([ti])a$/i, '$1um'
            Rule(EndsAny({<<"t", "a">>, <<"i", "a">>}),
                 Cut(1, <<"u", "m">>)),
            \* plural.analyses
            \* /((a)naly|(b)a|(d)iagno|(p)arenthe|(p)rogno|(s)ynop|(t)he)ses$/i, '$1$2sis':
            \* $2 is the "a" of "analy", and empty for the other stems
            Rule(EndsAny({<<"a", "n", "a", "l", "y", "s", "e", "s">>,
                  <<"b", "a", "s", "e", "s">>,
                  <<"d", "i", "a", "g", "n", "o", "s", "e", "s">>,
                  <<"p", "a", "r", "e", "n", "t", "h", "e", "s", "e", "s">>,
                  <<"p", "r", "o", "g", "n", "o", "s", "e", "s">>,
                  <<"s", "y", "n", "o", "p", "s", "e", "s">>, <<"t", "h", "e", "s", "e", "s">>}),
                 SubSeq(str, 1, n - 3)
                 \o (IF Ends(<<"a", "n", "a", "l", "y", "s", "e", "s">>)
                     THEN <<str[n - 7]>> ELSE <<>>)
                 \o <<"s", "i", "s">>),
            \* plural.hives /(hi|ti)ves$/i, '$1ve'
            Rule(EndsAny({<<"h", "i", "v", "e", "s">>, <<"t", "i", "v", "e", "s">>}),
                 Cut(3, <<"v", "e">>)),
            \* plural.curves /(curve)s$/i, '$1'
            Rule(Ends(<<"c", "u", "r", "v", "e", "s">>),
                 Cut(1, <<>>)),
            \* plural.lrves /([lr])ves$/i, '$1f'
            Rule(EndsAny({<<"l", "v", "e", "s">>, <<"r", "v", "e", "s">>}),
                 Cut(3, <<"f">>)),
            \* plural.aves /([a])ves$/i, '$1ve'
            Rule(Ends(<<"a", "v", "e", "s">>),
                 Cut(3, <<"v", "e">>)),
            \* plural.foves /([^fo])ves$/i, '$1fe'
            Rule(Ends(<<"v", "e", "s">>) /\ NotIn(4, {"f", "o"}),
                 Cut(3, <<"f", "e">>)),
            \* plural.movies /(m)ovies$/i, '$1ovie'
            Rule(Ends(<<"m", "o", "v", "i", "e", "s">>),
                 Cut(5, <<"o", "v", "i", "e">>)),
            \* plural.aeiouyies /([^aeiouy]|qu)ies$/i, '$1y'
            Rule((Ends(<<"i", "e", "s">>) /\ NotIn(4, Vowels))
                  \/ Ends(<<"q", "u", "i", "e", "s">>),
                 Cut(3, <<"y">>)),
            \* plural.series /(s)eries$/i, '$1eries'
            Rule(Ends(<<"s", "e", "r", "i", "e", "s">>),
                 Cut(5, <<"e", "r", "i", "e", "s">>)),
            \* plural.xes /(x|ch|ss|sh)es$/i, '$1'
            Rule(EndsAny({<<"x", "e", "s">>, <<"c", "h", "e", "s">>, <<"s", "s", "e", "s">>,
                  <<"s", "h", "e", "s">>}),
                 Cut(2, <<>>)),
            \* plural.mice /([m|l])ice$/i, '$1ouse'
            Rule(EndsAny({<<"m", "i", "c", "e">>, <<"|", "i", "c", "e">>,
                  <<"l", "i", "c", "e">>}),
                 Cut(3, <<"o", "u", "s", "e">>)),
            \* plural.buses /(bus)es$/i, '$1'
            Rule(Ends(<<"b", "u", "s", "e", "s">>),
                 Cut(2, <<>>)),
            \* plural.oes /(o)es$/i, '$1'
            Rule(Ends(<<"o", "e", "s">>),
                 Cut(2, <<>>)),
            \* plural.shoes /(shoe)s$/i, '$1'
            Rule(Ends(<<"s", "h", "o", "e", "s">>),
                 Cut(1, <<>>)),
            \* plural.crises /(cris|ax|test)es$/i, '$1is'
            Rule(EndsAny({<<"c", "r", "i", "s", "e", "s">>, <<"a", "x", "e", "s">>,
                  <<"t", "e", "s", "t", "e", "s">>}),
                 Cut(2, <<"i", "s">>)),
            \* plural.octopuses /(octop|vir)uses$/i, '$1us'
            Rule(EndsAny({<<"o", "c", "t", "o", "p", "u", "s", "e", "s">>,
                  <<"v", "i", "r", "u", "s", "e", "s">>}),
                 Cut(4, <<"u", "s">>)),
            \* plural.aliases /(alias|canvas|status|campus)es$/i, '$1'
            Rule(EndsAny({<<"a", "l", "i", "a", "s", "e", "s">>,
                  <<"c", "a", "n", "v", "a", "s", "e", "s">>,
                  <<"s", "t", "a", "t", "u", "s", "e", "s">>,
                  <<"c", "a", "m", "p", "u", "s", "e", "s">>}),
                 Cut(2, <<>>)),
            \* plural.summonses /^(summons|bonus)es$/i, '$1'
            Rule(Is({<<"s", "u", "m", "m", "o", "n", "s", "e", "s">>,
                  <<"b", "o", "n", "u", "s", "e", "s">>}),
                 Cut(2, <<>>)),
            \* plural.oxen /^(ox)en/i, '$1': the match is at the front
            Rule(StartsWith(low, <<"o", "x", "e", "n">>),
                 SubSeq(str, 1, 2) \o SubSeq(str, 5, n)),
            \* plural.matrices /(matr)ices$/i, '$1ix'
            Rule(Ends(<<"m", "a", "t", "r", "i", "c", "e", "s">>),
                 Cut(4, <<"i", "x">>)),
            \* plural.vertices /(vert|ind)ices$/i, '$1ex'
            Rule(EndsAny({<<"v", "e", "r", "t", "i", "c", "e", "s">>,
                  <<"i", "n", "d", "i", "c", "e", "s">>}),
                 Cut(4, <<"e", "x">>)),
            \* plural.feet /^feet$/i, 'foot'
            Rule(Is({<<"f", "e", "e", "t">>}),
                 <<"f", "o", "o", "t">>),
            \* plural.teeth /^teeth$/i, 'tooth'
            Rule(Is({<<"t", "e", "e", "t", "h">>}),
                 <<"t", "o", "o", "t", "h">>),
            \* plural.geese /^geese$/i, 'goose'
            Rule(Is({<<"g", "e", "e", "s", "e">>}),
                 <<"g", "o", "o", "s", "e">>),
            \* plural.quizzes /(quiz)zes$/i, '$1'
            Rule(Ends(<<"q", "u", "i", "z", "z", "e", "s">>),
                 Cut(3, <<>>)),
            \* plural.whereases /^(whereas)es$/i, '$1'
            Rule(Is({<<"w", "h", "e", "r", "e", "a", "s", "e", "s">>}),
                 Cut(2, <<>>)),
            \* plural.ss /ss$/i, 'ss'
            Rule(Ends(<<"s", "s">>),
                 Cut(2, <<"s", "s">>)),
            \* plural.s /s$/i, ''
            Rule(Ends(<<"s">>),
                 Cut(1, <<>>)) >>
    IN  Rules([i \in 1..n |-> Canonicalize(str[i])])

\* inflection.singularize(str) of inflection 3.0.2: applyRules(str,
\* singularRules, uncountableWords).  An uncountable word is returned as it
\* is; otherwise the first rule whose regular expression matches decides,
\* and a string no rule matches is returned as it is.
singularize(str) ==
    IF toLocaleLowerCase(str) \in uncountableWords THEN str
    ELSE LET Apply(rules) ==
                 IF \E i \in 1..Len(rules) : rules[i].matches
                 THEN rules[CHOOSE i \in 1..Len(rules) :
                                /\ rules[i].matches
                                /\ \A j \in 1..(i - 1) : ~rules[j].matches].result
                 ELSE str
         IN  Apply(singularRules(str))

(***************************************************************************)
(* Schema nodes                                                            *)
(***************************************************************************)

ZString == [kind |-> "ZodString"]
ZNumber(isInt) == [kind |-> "ZodNumber", isInt |-> isInt]
ZBoolean == [kind |-> "ZodBoolean"]
ZDate == [kind |-> "ZodDate"]
ZBigInt == [kind |-> "ZodBigInt"]
ZEnum(opts) == [kind |-> "ZodEnum", options |-> opts]
ZArray(el) == [kind |-> "ZodArray", element |-> el]
ZSet(el) == [kind |-> "ZodSet", valueType |-> el]
ZTuple(items) == [kind |-> "ZodTuple", items |-> items]
ZMap(k, v) == [kind |-> "ZodMap", keyType |-> k, valueType |-> v]
ZOptional(inner) == [kind |-> "ZodOptional", innerType |-> inner]
ZNullable(inner) == [kind |-> "ZodNullable", innerType |-> inner]
ZObject(shape) == [kind |-> "ZodObject", shape |-> shape]
\* z.any(): a ZodType the compiler has no branch for.
ZAny == [kind |-> "ZodAny"]
\* A value that is no ZodType: typeof value, and value.constructor.name
\* (Null when reading .constructor throws, as for null and undefined;
\* Undefined when the value has no constructor, as Object.create(null)).
Foreign(typeOf, ctor) == [kind |-> "foreign", typeOf |-> typeOf, ctor |-> ctor]

Entry(key, value) == [key |-> key, value |-> value]

\* typeof undefined
TypeOfUndefined == <<"u", "n", "d", "e", "f", "i", "n", "e", "d">>

\* value.constructor.name of a ZodType.
ConstructorName ==
    [ZodString   |-> <<"Z", "o", "d", "S", "t", "r", "i", "n", "g">>,
     ZodNumber   |-> <<"Z", "o", "d", "N", "u", "m", "b", "e", "r">>,
     ZodBoolean  |-> <<"Z", "o", "d", "B", "o", "o", "l", "e", "a", "n">>,
     ZodDate     |-> <<"Z", "o", "d", "D", "a", "t", "e">>,
     ZodBigInt   |-> <<"Z", "o", "d", "B", "i", "g", "I", "n", "t">>,
     ZodEnum     |-> <<"Z", "o", "d", "E", "n", "u", "m">>,
     ZodArray    |-> <<"Z", "o", "d", "A", "r", "r", "a", "y">>,
     ZodSet      |-> <<"Z", "o", "d", "S", "e", "t">>,
     ZodTuple    |-> <<"Z", "o", "d", "T", "u", "p", "l", "e">>,
     ZodMap      |-> <<"Z", "o", "d", "M", "a", "p">>,
     ZodOptional |-> <<"Z", "o", "d", "O", "p", "t", "i", "o", "n", "a", "l">>,
     ZodNullable |-> <<"Z", "o", "d", "N", "u", "l", "l", "a", "b", "l", "e">>,
     ZodObject   |-> <<"Z", "o", "d", "O", "b", "j", "e", "c", "t">>,
     ZodAny      |-> <<"Z", "o", "d", "A", "n", "y">>]

(***************************************************************************)
(* Exceptions and results                                                  *)
(***************************************************************************)

UnsupportedPrefix ==
    <<"U", "n", "s", "u", "p", "p", "o", "r", "t", "e", "d", SP, "t", "y", "p", "e", ":", SP>>

\* class UnsupportedTypeException: super(`Unsupported type: ${type}`)
UnsupportedTypeException(type) ==
    [name |-> "UnsupportedTypeException", message |-> UnsupportedPrefix \o type]

\* Reading a property of null or undefined: `Cannot read properties of
\* ${of} (reading '${property}')`.
TypeError(of, property) ==
    [name |-> "TypeError",
     message |-> <<"C", "a", "n", "n", "o", "t", SP, "r", "e", "a", "d", SP,
                   "p", "r", "o", "p", "e", "r", "t", "i", "e", "s", SP, "o", "f", SP>>
                 \o of \o <<SP, "(", "r", "e", "a", "d", "i", "n", "g", SP, "'">>
                 \o property \o <<"'", ")">>]

NoError == [name |-> "none", message |-> <<>>]

\* A call that returned `value`, leaving the two Maps as given.
Return(value, msgs, ens) ==
    [ok |-> TRUE, error |-> NoError, value |-> value, messages |-> msgs, enums |-> ens]

\* A call that threw `error`, leaving the two Maps as given.
Throw(error, msgs, ens) ==
    [ok |-> FALSE, error |-> error, value |-> <<>>, messages |-> msgs, enums |-> ens]

(***************************************************************************)
(* Map<string, string[]>                                                   *)
(***************************************************************************)

MapHas(map, name) == \E i \in 1..Len(map) : map[i].name = name

MapIndex(map, name) == CHOOSE i \in 1..Len(map) : map[i].name = name

MapGet(map, name) == map[MapIndex(map, name)].body

\* Map.prototype.set that leaves the value of an existing key alone.
MapSetKeepingFirst(map, name, body) ==
    IF MapHas(map, name)
    THEN map
    ELSE Append(map, [name |-> name, body |-> body])

\* Map.prototype.set: a new key is appended, an existing key keeps its place
\* and takes the new value.
MapSet(map, name, body) ==
    IF MapHas(map, name)
    THEN [map EXCEPT ![MapIndex(map, name)] = [name |-> name, body |-> body]]
    ELSE Append(map, [name |-> name, body |-> body])

MapKeys(map) == [i \in 1..Len(map) |-> map[i].name]

(***************************************************************************)
(* The traversal                                                           *)
(***************************************************************************)

Repeated == <<"r", "e", "p", "e", "a", "t", "e", "d">>
Optional == <<"o", "p", "t", "i", "o", "n", "a", "l">>

\* OptionalModifier without the test of isInArray.
OptionalModifierInArrayToo(isOptional, isInArray) ==
    IF isOptional THEN Optional ELSE Null

\* OptionalModifier with the test of isInArray turned round.
OptionalModifierInArrayOnly(isOptional, isInArray) ==
    IF isOptional /\ isInArray THEN Optional ELSE Null

\* const optional = isOptional && !isInArray ? 'optional' : null
OptionalModifier(isOptional, isInArray) ==
    IF isOptional /\ ~isInArray THEN Optional ELSE Null

\* interface ProtobufField
ProtobufField(types, name) == [types |-> types, name |-> name]

\* getNumberTypeName with the two type names exchanged.
getNumberTypeNameSwapped(value) ==
    IF value.isInt THEN <<"d", "o", "u", "b", "l", "e">>
    ELSE <<"i", "n", "t", "3", "2">>

\* const getNumberTypeName = ({ value }) => value.isInt ? 'int32' : 'double'
getNumberTypeName(value) ==
    IF value.isInt THEN <<"i", "n", "t", "3", "2">>
    ELSE <<"d", "o", "u", "b", "l", "e">>

protobufFieldToType(field) == Join(FilterBoolean(field.types), <<SP>>)

\* SchemaFieldLine numbering from the index itself, 0-based.
SchemaFieldLineFromZero(field, index) ==
    protobufFieldToType(field) \o <<SP>> \o field.name
        \o <<SP, "=", SP>> \o NumberToString(index) \o <<";">>

\* (field, index) => `${protobufFieldToType({ field })} ${field.name} = ${index + 1};`
SchemaFieldLine(field, index) ==
    protobufFieldToType(field) \o <<SP>> \o field.name
        \o <<SP, "=", SP>> \o NumberToString(index + 1) \o <<";">>

\* (field, index) => `  ${field.types.join(' ')} ${field.name} = ${index + 1};`
TupleFieldLine(field, index) ==
    <<SP, SP>> \o Join(field.types, <<SP>>) \o <<SP>> \o field.name
        \o <<SP, "=", SP>> \o NumberToString(index + 1) \o <<";">>

\* EnumFieldLine that numbers the options from 1.
EnumFieldLineFromOne(option, index) ==
    <<SP, SP, SP, SP>> \o option \o <<SP, "=", SP>> \o NumberToString(index + 1) \o <<";">>

\* (option, index) => `    ${String(option)} = ${index};`
EnumFieldLine(option, index) ==
    <<SP, SP, SP, SP>> \o option \o <<SP, "=", SP>> \o NumberToString(index) \o <<";">>

\* `enum ${enumName} {\n${enumFields}\n}`
EnumDefinition(enumName, opts) ==
    <<"e", "n", "u", "m", SP>> \o enumName \o <<SP, "{", NL>>
        \o Join([i \in 1..Len(opts) |-> EnumFieldLine(opts[i], i - 1)], <<NL>>)
        \o <<NL, "}">>

\* toPascalCase({ value: key }), with typePrefix in front when it is truthy.
PrefixedTypeName(key, typePrefix) ==
    IF typePrefix # <<>> THEN typePrefix \o toPascalCase(key) ELSE toPascalCase(key)

\* `${key}_${index}`
TupleItemKey(key, index) == key \o <<"_">> \o NumberToString(index)

\* Unsupported that skips the value: no field and no exception.
UnsupportedSkipped(value, msgs, ens) == Return(<<>>, msgs, ens)

\* if (value instanceof ZodType) throw new UnsupportedTypeException(value.constructor.name)
\* throw new UnsupportedTypeException(typeof value)
Unsupported(value, msgs, ens) ==
    IF value.kind = "foreign"
    THEN Throw(UnsupportedTypeException(value.typeOf), msgs, ens)
    ELSE Throw(UnsupportedTypeException(ConstructorName[value.kind]), msgs, ens)

RECURSIVE traverseKey(_, _, _, _, _, _, _)
RECURSIVE traverseArray(_, _, _, _, _)
RECURSIVE traverseMap(_, _, _, _, _)
RECURSIVE traverseSchema(_, _, _, _)
RECURSIVE TraverseItems(_, _, _, _, _, _, _)
RECURSIVE TraverseShape(_, _, _, _, _)

\* RepeatedFields that leaves a field alone that is repeated already.
RepeatedFieldsOnce(elementFields, singularKey, key) ==
    [i \in 1..Len(elementFields) |->
        ProtobufField(IF Head(elementFields[i].types) = Repeated
                      THEN elementFields[i].types
                      ELSE <<Repeated>> \o elementFields[i].types,
                      Replace(elementFields[i].name, singularKey, key))]

\* RepeatedFields that leaves the name of the field as the element has it.
RepeatedFieldsUnrenamed(elementFields, singularKey, key) ==
    [i \in 1..Len(elementFields) |->
        ProtobufField(<<Repeated>> \o elementFields[i].types, elementFields[i].name)]

\* elementFields.map((field) => ({ ...field, types: ['repeated', ...field.types],
\*                                  name: field.name.replace(singularKey, key) }))
RepeatedFields(elementFields, singularKey, key) ==
    [i \in 1..Len(elementFields) |->
        ProtobufField(<<Repeated>> \o elementFields[i].types,
                      Replace(elementFields[i].name, singularKey, key))]

traverseArray(key, value, msgs, ens, typePrefix) ==
    LET nestedValue == IF value.kind = "ZodArray" THEN value.element ELSE value.valueType
        OfElement(singularKey, r) ==
            IF ~r.ok THEN r
            ELSE Return(RepeatedFields(r.value, singularKey, key), r.messages, r.enums)
        OfSingular(singularKey) ==
            OfElement(singularKey,
                      traverseKey(singularKey, nestedValue, msgs, ens, FALSE, TRUE, typePrefix))
    IN  OfSingular(singularize(key))

\* traverseMap that writes the value type in front of the key type.
RECURSIVE traverseMapSwapped(_, _, _, _, _)
traverseMapSwapped(key, value, msgs, ens, typePrefix) ==
    LET MapType(keyType, valueType) ==
            <<"m", "a", "p", "<">> \o protobufFieldToType(keyType[1])
                \o <<",", SP>> \o protobufFieldToType(valueType[1]) \o <<">">>
        OfKeyAndValue(k, v) ==
            IF ~v.ok THEN v
            ELSE IF Len(k.value) # 1
            THEN Throw(UnsupportedTypeException(key \o <<SP, "m", "a", "p", SP, "k", "e", "y">>),
                       v.messages, v.enums)
            ELSE IF Len(v.value) # 1
            THEN Throw(UnsupportedTypeException(
                           key \o <<SP, "m", "a", "p", SP, "v", "a", "l", "u", "e">>),
                       v.messages, v.enums)
            ELSE Return(<<ProtobufField(<<MapType(v.value, k.value)>>, key)>>,
                        v.messages, v.enums)
        OfKey(k) ==
            IF ~k.ok THEN k
            ELSE OfKeyAndValue(k, traverseKey(key \o <<"V", "a", "l", "u", "e">>,
                                              value.valueType, k.messages, k.enums,
                                              FALSE, TRUE, typePrefix))
    IN  OfKey(traverseKey(key \o <<"K", "e", "y">>, value.keyType,
                          msgs, ens, FALSE, TRUE, typePrefix))

traverseMap(key, value, msgs, ens, typePrefix) ==
    LET MapType(keyType, valueType) ==
            <<"m", "a", "p", "<">> \o protobufFieldToType(keyType[1])
                \o <<",", SP>> \o protobufFieldToType(valueType[1]) \o <<">">>
        OfKeyAndValue(k, v) ==
            IF ~v.ok THEN v
            ELSE IF Len(k.value) # 1
            THEN Throw(UnsupportedTypeException(key \o <<SP, "m", "a", "p", SP, "k", "e", "y">>),
                       v.messages, v.enums)
            ELSE IF Len(v.value) # 1
            THEN Throw(UnsupportedTypeException(
                           key \o <<SP, "m", "a", "p", SP, "v", "a", "l", "u", "e">>),
                       v.messages, v.enums)
            ELSE Return(<<ProtobufField(<<MapType(k.value, v.value)>>, key)>>,
                        v.messages, v.enums)
        OfKey(k) ==
            IF ~k.ok THEN k
            ELSE OfKeyAndValue(k, traverseKey(key \o <<"V", "a", "l", "u", "e">>,
                                              value.valueType, k.messages, k.enums,
                                              FALSE, TRUE, typePrefix))
    IN  OfKey(traverseKey(key \o <<"K", "e", "y">>, value.keyType,
                          msgs, ens, FALSE, TRUE, typePrefix))

\* The flatMap over the items of a tuple, from the item at `index` (0-based)
\* on: the descriptors of all items, or the first exception.
TraverseItems(key, items, index, msgs, ens, isInArray, typePrefix) ==
    IF index >= Len(items) THEN Return(<<>>, msgs, ens)
    ELSE
    LET OfItemAndRest(r, rest) ==
            IF ~rest.ok THEN rest
            ELSE Return(r.value \o rest.value, rest.messages, rest.enums)
        OfItem(r) ==
            IF ~r.ok THEN r
            ELSE OfItemAndRest(r, TraverseItems(key, items, index + 1,
                                                r.messages, r.enums, isInArray, typePrefix))
    IN  OfItem(traverseKey(TupleItemKey(key, index), items[index + 1],
                           msgs, ens, FALSE, isInArray, typePrefix))

traverseKey(key, value, msgs, ens, isOptional, isInArray, typePrefix) ==
    IF value.kind \in {"ZodOptional", "ZodNullable"}
    THEN traverseKey(key, value.innerType, msgs, ens, TRUE, isInArray, typePrefix)
    ELSE IF value.kind \in {"ZodArray", "ZodSet"}
    THEN traverseArray(key, value, msgs, ens, typePrefix)
    ELSE IF value.kind = "ZodMap"
    THEN traverseMap(key, value, msgs, ens, typePrefix)
    ELSE
    LET optional == OptionalModifier(isOptional, isInArray)
        Scalar(typeName) ==
            Return(<<ProtobufField(<<optional, typeName>>, key)>>, msgs, ens)
        OfObject(messageName, r) ==
            IF ~r.ok THEN r
            ELSE Return(<<ProtobufField(<<optional, messageName>>, key)>>,
                        MapSet(r.messages, messageName, r.value), r.enums)
        OfEnum(enumName) ==
            Return(<<ProtobufField(<<optional, enumName>>, key)>>, msgs,
                   MapSet(ens, enumName, <<EnumDefinition(enumName, value.options)>>))
        OfTuple(tupleMessageName, r) ==
            IF ~r.ok THEN r
            ELSE Return(<<ProtobufField(<<optional, tupleMessageName>>, key)>>,
                        MapSet(r.messages, tupleMessageName,
                               [i \in 1..Len(r.value) |-> TupleFieldLine(r.value[i], i - 1)]),
                        r.enums)
    IN  CASE value.kind = "ZodObject" ->
                OfObject(PrefixedTypeName(key, typePrefix),
                         traverseSchema(value, msgs, ens, typePrefix))
          [] value.kind = "ZodString" -> Scalar(<<"s", "t", "r", "i", "n", "g">>)
          [] value.kind = "ZodNumber" -> Scalar(getNumberTypeName(value))
          [] value.kind = "ZodBoolean" -> Scalar(<<"b", "o", "o", "l">>)
          [] value.kind = "ZodEnum" -> OfEnum(PrefixedTypeName(key, typePrefix))
          [] value.kind = "ZodDate" -> Scalar(<<"s", "t", "r", "i", "n", "g">>)
          [] value.kind = "ZodBigInt" -> Scalar(<<"i", "n", "t", "6", "4">>)
          [] value.kind = "ZodTuple" ->
                OfTuple(toPascalCase(key),
                        TraverseItems(key, value.items, 0, msgs, ens, isInArray, typePrefix))
          [] OTHER -> Unsupported(value, msgs, ens)

\* The flatMap over Object.entries(schema.shape), from the entry at `index`
\* (0-based) on.
TraverseShape(shape, index, msgs, ens, typePrefix) ==
    IF index >= Len(shape) THEN Return(<<>>, msgs, ens)
    ELSE
    LET OfEntryAndRest(r, rest) ==
            IF ~rest.ok THEN rest
            ELSE Return(r.value \o rest.value, rest.messages, rest.enums)
        OfEntry(r) ==
            IF ~r.ok THEN r
            ELSE OfEntryAndRest(r, TraverseShape(shape, index + 1,
                                                 r.messages, r.enums, typePrefix))
    IN  OfEntry(traverseKey(shape[index + 1].key, shape[index + 1].value,
                            msgs, ens, FALSE, FALSE, typePrefix))

\* fields.map((field, index) => `... = ${index + 1};`) on what the flatMap
\* over the shape gives.
SchemaFieldLines(r) ==
    IF ~r.ok THEN r
    ELSE Return([i \in 1..Len(r.value) |-> SchemaFieldLine(r.value[i], i - 1)],
                r.messages, r.enums)

\* throw new UnsupportedTypeException(schema.constructor.name): reading
\* .constructor of null or of undefined throws a TypeError, and so does
\* reading .name when the schema has no constructor.
UnsupportedSchema(sch, msgs, ens) ==
    IF sch.kind # "foreign"
    THEN Throw(UnsupportedTypeException(ConstructorName[sch.kind]), msgs, ens)
    ELSE IF sch.ctor = Null
    THEN Throw(TypeError(IF sch.typeOf = TypeOfUndefined THEN TypeOfUndefined
                         ELSE <<"n", "u", "l", "l">>,
                         <<"c", "o", "n", "s", "t", "r", "u", "c", "t", "o", "r">>),
               msgs, ens)
    ELSE IF sch.ctor = Undefined
    THEN Throw(TypeError(TypeOfUndefined, <<"n", "a", "m", "e">>), msgs, ens)
    ELSE Throw(UnsupportedTypeException(sch.ctor), msgs, ens)

\* traverseSchema that first unwraps an Optional/Nullable schema.
RECURSIVE traverseSchemaUnwrapping(_, _, _, _)
traverseSchemaUnwrapping(sch, msgs, ens, typePrefix) ==
    IF sch.kind \in {"ZodOptional", "ZodNullable"}
    THEN traverseSchemaUnwrapping(sch.innerType, msgs, ens, typePrefix)
    ELSE IF sch.kind # "ZodObject"
    THEN UnsupportedSchema(sch, msgs, ens)
    ELSE SchemaFieldLines(TraverseShape(sch.shape, 0, msgs, ens, typePrefix))

traverseSchema(sch, msgs, ens, typePrefix) ==
    IF sch.kind # "ZodObject"
    THEN UnsupportedSchema(sch, msgs, ens)
    ELSE SchemaFieldLines(TraverseShape(sch.shape, 0, msgs, ens, typePrefix))

(***************************************************************************)
(* zodToProtobuf                                                           *)
(***************************************************************************)

DefaultPackageName == <<"d", "e", "f", "a", "u", "l", "t">>
DefaultRootMessageName == <<"M", "e", "s", "s", "a", "g", "e">>
DefaultTypePrefix == <<>>

\* const { packageName = 'default', rootMessageName = 'Message', typePrefix = '' } = options
OptionOr(given, default) == IF given = Undefined THEN default ELSE given
PackageNameOf(opts) == OptionOr(opts.packageName, DefaultPackageName)
RootMessageNameOf(opts) == OptionOr(opts.rootMessageName, DefaultRootMessageName)
TypePrefixOf(opts) == OptionOr(opts.typePrefix, DefaultTypePrefix)

\* `${typePrefix}${rootMessageName}`
RootName(opts) == TypePrefixOf(opts) \o RootMessageNameOf(opts)

\* Array.from(enums.values()).map((enumDef) => enumDef.join('\n'))
EnumsString(ens) == [i \in 1..Len(ens) |-> Join(ens[i].body, <<NL>>)]

\* `message ${name} {\n${fields.map((field) => `    ${field}`).join('\n')}\n}`
MessageBlock(name, body) ==
    <<"m", "e", "s", "s", "a", "g", "e", SP>> \o name \o <<SP, "{", NL>>
        \o Join([i \in 1..Len(body) |-> <<SP, SP, SP, SP>> \o body[i]], <<NL>>)
        \o <<NL, "}">>

MessagesString(msgs) == [i \in 1..Len(msgs) |-> MessageBlock(msgs[i].name, msgs[i].body)]

\* Content with the message blocks in front of the enum blocks.
ContentMessagesFirst(ens, msgs) ==
    LET blocks == SelectSeq(<<MessagesString(msgs), EnumsString(ens)>>,
                            LAMBDA strings : Len(strings) # 0)
    IN  Join([i \in 1..Len(blocks) |-> Join(blocks[i], <<NL, NL>>)], <<NL, NL>>)

\* [enumsString, messagesString].filter((strings) => !!strings.length)
\*     .map((strings) => strings.join('\n\n')).join('\n\n')
Content(ens, msgs) ==
    LET blocks == SelectSeq(<<EnumsString(ens), MessagesString(msgs)>>,
                            LAMBDA strings : Len(strings) # 0)
    IN  Join([i \in 1..Len(blocks) |-> Join(blocks[i], <<NL, NL>>)], <<NL, NL>>)

\* ProtoDefinition with an empty line between the syntax line and the package
\* line.
ProtoDefinitionSpaced(packageName, ens, msgs) ==
    Trim(<<NL>> \o <<"s", "y", "n", "t", "a", "x", SP, "=", SP,
                     "\"", "p", "r", "o", "t", "o", "3", "\"", ";">>
         \o <<NL, NL>> \o <<"p", "a", "c", "k", "a", "g", "e", SP>> \o packageName \o <<";">>
         \o <<NL, NL>> \o Content(ens, msgs) \o <<NL>>)

\* `\nsyntax = "proto3";\npackage ${packageName};\n\n${content}\n`.trim()
ProtoDefinition(packageName, ens, msgs) ==
    Trim(<<NL>> \o <<"s", "y", "n", "t", "a", "x", SP, "=", SP,
                     "\"", "p", "r", "o", "t", "o", "3", "\"", ";">>
         \o <<NL>> \o <<"p", "a", "c", "k", "a", "g", "e", SP>> \o packageName \o <<";">>
         \o <<NL, NL>> \o Content(ens, msgs) \o <<NL>>)

NoOutcome == [kind |-> "none", error |-> NoError, text |-> <<>>]
Returned(text) == [kind |-> "return", error |-> NoError, text |-> text]
Thrown(error) == [kind |-> "throw", error |-> error, text |-> <<>>]

NoSchema == [kind |-> "none"]
NoOptions == [packageName |-> Undefined, rootMessageName |-> Undefined,
              typePrefix |-> Undefined]

(***************************************************************************)
(* The calls the model makes                                               *)
(***************************************************************************)

\* Nesting depth of the schema nodes under a field of the root.
MaxDepth == 2
\* Largest number of options of an enum.
MaxOptions == 2

KeyUsers == <<"u", "s", "e", "r", "s">>
KeyUser == <<"u", "s", "e", "r">>
KeyTags == <<"t", "a", "g", "s">>
KeyMessage == <<"m", "e", "s", "s", "a", "g", "e">>
KeyDotted == <<"a", ".", "b">>
KeyId == <<"i", "d">>
KeyDollars == <<"a", "$", "$">>
KeyGrave == <<"a", "$", GraveAccent, "b">>
KeyData == <<"d", "a", "t", "a">>

OptionNames ==
    << <<"A", "C", "T", "I", "V", "E">>, <<"I", "N", "A", "C", "T", "I", "V", "E">>,
       <<"G", "U", "E", "S", "T">>, <<"A", "D", "M", "I", "N">> >>

EnumOf(n) == ZEnum(SubSeq(OptionNames, 1, n))

ForeignNumber == Foreign(<<"n", "u", "m", "b", "e", "r">>, <<"N", "u", "m", "b", "e", "r">>)
ForeignObject == Foreign(<<"o", "b", "j", "e", "c", "t">>, <<"O", "b", "j", "e", "c", "t">>)
ForeignNull == Foreign(<<"o", "b", "j", "e", "c", "t">>, Null)
ForeignUndefined == Foreign(TypeOfUndefined, Null)
\* Object.create(null)
ForeignBare == Foreign(<<"o", "b", "j", "e", "c", "t">>, Undefined)

ScalarLeaves == {ZString, ZNumber(TRUE), ZNumber(FALSE), ZBoolean, ZDate, ZBigInt}
EnumLeaves == {EnumOf(n) : n \in 1..MaxOptions}
UnsupportedLeaves ==
    {ZAny, ForeignNumber, ForeignObject, ForeignNull, ForeignUndefined, ForeignBare}
Leaves == ScalarLeaves \cup EnumLeaves \cup UnsupportedLeaves

CoreLeaves == {ZString, ZNumber(TRUE), EnumOf(MaxOptions), ZAny}

ObjA(n) == ZObject(<<Entry(KeyUser, n)>>)
ObjB(n) == ZObject(<<Entry(KeyId, ZNumber(TRUE)), Entry(KeyTags, n)>>)
Tuple1(n) == ZTuple(<<n>>)
Tuple2(n) == ZTuple(<<ZNumber(FALSE), n>>)
MapToValue(n) == ZMap(ZString, n)
MapFromKey(n) == ZMap(n, ZString)

RECURSIVE Inner(_)
Inner(d) ==
    IF d = 0 THEN CoreLeaves
    ELSE LET S == Inner(d - 1)
         IN  CoreLeaves \cup {ZOptional(n) : n \in S} \cup {ZArray(n) : n \in S}
                 \cup {ObjA(n) : n \in S} \cup {Tuple2(n) : n \in S}
                 \cup {MapToValue(n) : n \in S}

Top ==
    LET S == Inner(MaxDepth - 1)
    IN  Leaves
            \cup {ZOptional(n) : n \in S} \cup {ZNullable(n) : n \in S}
            \cup {ZArray(n) : n \in S} \cup {ZSet(n) : n \in S}
            \cup {ObjA(n) : n \in S} \cup {ObjB(n) : n \in S}
            \cup {Tuple1(n) : n \in S} \cup {Tuple2(n) : n \in S}
            \cup {MapToValue(n) : n \in S} \cup {MapFromKey(n) : n \in S}

\* Deeper nodes, as the tests of the repository nest them.
Deep ==
    {ZSet(ZSet(ObjB(ZString))), ZArray(ZArray(ObjA(ZOptional(ZString)))),
     ZArray(ZNullable(ZArray(ZString))), ZOptional(ZArray(ZOptional(ZString))),
     ZArray(Tuple2(ObjA(ZString))), ObjA(ObjB(ZOptional(ZArray(ZString)))),
     Tuple2(ZOptional(Tuple1(ZNullable(ZString)))),
     MapToValue(Tuple2(ZOptional(ZString)))}

RootKeys == {KeyUsers, KeyMessage, KeyDotted}
SecondFields ==
    {ZString, ObjA(ZBoolean), ZArray(ObjA(ZDate)), Tuple1(ZString), ZAny,
     ZNullable(ZArray(ZString)), ObjA(ZOptional(EnumOf(1)))}

OneFieldRoots == {ZObject(<<Entry(k, n)>>) : k \in RootKeys, n \in Top \cup Deep}
TwoFieldRoots ==
    {ZObject(<<Entry(kk[1], n1), Entry(kk[2], n2)>>) :
        kk \in {p \in RootKeys \X RootKeys : p[1] # p[2]},
        n1 \in Inner(1), n2 \in SecondFields}
OtherRoots ==
    Leaves \cup {ZObject(<<>>), ZArray(ZString), ZOptional(ObjA(ZString)),
                 ZNullable(ObjA(ZString)), ZOptional(ZString),
                 ZOptional(ZNullable(ZObject(<<Entry(KeyId, ZString)>>))),
                 ZObject(<<Entry(KeyDollars, ZOptional(ZString))>>),
                 ZObject(<<Entry(KeyDollars, ZArray(ZString))>>),
                 ZObject(<<Entry(KeyDollars, Tuple1(ZArray(ZString)))>>),
                 ZObject(<<Entry(KeyDollars, MapToValue(ZArray(ZString)))>>),
                 ZObject(<<Entry(KeyGrave, ZArray(ZString))>>),
                 ZObject(<<Entry(KeyDollars, ZArray(EnumOf(2)))>>),
                 ZObject(<<Entry(KeyDollars, ZArray(ObjA(ZString)))>>),
                 ZObject(<<Entry(KeyDollars, ZArray(Tuple2(ZString)))>>),
                 ZObject(<<Entry(KeyDollars, ZArray(MapToValue(ObjA(ZString))))>>),
                 ZObject(<<Entry(KeyDollars, ZSet(ZArray(ZNumber(TRUE))))>>),
                 ZObject(<<Entry(KeyDollars, MapToValue(ObjA(ZArray(ZString))))>>),
                 ZObject(<<Entry(KeyDollars, EnumOf(2)), Entry(KeyId, ZArray(ObjB(ZString)))>>),
                 ZObject(<<Entry(KeyDollars, ObjA(ZArray(EnumOf(1)))),
                           Entry(KeyDollars \o <<"_", "0">>, ZArray(ZString))>>),
                 ZObject(<<Entry(KeyDollars, Tuple2(ZArray(ObjA(ZString))))>>),
                 ZObject(<<Entry(KeyData, ZArray(ObjA(ZString)))>>),
                 ZObject(<<Entry(KeyData, ZArray(EnumOf(1)))>>)}

Schemas == OneFieldRoots \cup TwoFieldRoots \cup OtherRoots

OptionSets ==
    {NoOptions,
     [packageName |-> Undefined, rootMessageName |-> Undefined,
      typePrefix |-> <<"P", "_">>],
     [packageName |-> <<"e", "x", "a", "m", "p", "l", "e">>,
      rootMessageName |-> <<"U", "s", "e", "r">>, typePrefix |-> Undefined]}

(***************************************************************************)
(* The state machine: one call of zodToProtobuf after another              *)
(***************************************************************************)

Init ==
    /\ pc = "idle"
    /\ schema = NoSchema
    /\ options = NoOptions
    /\ messages = <<>>
    /\ enums = <<>>
    /\ fields = <<>>
    /\ outcome = NoOutcome
    /\ argument = <<>>
    /\ applied = <<>>

\* Call on registries that are not created anew: the message registry still
\* holds an entry.
CallOnUsedRegistries(s, o) ==
    /\ pc = "idle"
    /\ pc' = "traverse"
    /\ schema' = s
    /\ options' = o
    /\ messages' = <<[name |-> <<"S", "t", "a", "l", "e">>, body |-> <<>>]>>
    /\ enums' = <<>>
    /\ fields' = <<>>
    /\ outcome' = NoOutcome
    /\ UNCHANGED nameVars

\* zodToProtobuf(s, o) is entered: the two Maps are created empty.
Call(s, o) ==
    /\ pc = "idle"
    /\ pc' = "traverse"
    /\ schema' = s
    /\ options' = o
    /\ messages' = <<>>
    /\ enums' = <<>>
    /\ fields' = <<>>
    /\ outcome' = NoOutcome
    /\ UNCHANGED nameVars

\* const fields = traverseSchema({ schema, messages, enums, typePrefix })
TraverseReturns ==
    /\ pc = "traverse"
    /\ LET Returns(r) ==
               /\ r.ok
               /\ fields' = r.value
               /\ messages' = r.messages
               /\ enums' = r.enums
       IN  Returns(traverseSchema(schema, messages, enums, TypePrefixOf(options)))
    /\ pc' = "register"
    /\ UNCHANGED <<schema, options, outcome, argument, applied>>

\* traverseSchema throws: the exception leaves zodToProtobuf.
TraverseThrows ==
    /\ pc = "traverse"
    /\ LET Throws(r) ==
               /\ ~r.ok
               /\ outcome' = Thrown(r.error)
               /\ messages' = r.messages
               /\ enums' = r.enums
       IN  Throws(traverseSchema(schema, messages, enums, TypePrefixOf(options)))
    /\ pc' = "thrown"
    /\ UNCHANGED <<schema, options, fields, argument, applied>>

\* messages.set(`${typePrefix}${rootMessageName}`, fields)
RegisterRoot ==
    /\ pc = "register"
    /\ messages' = MapSet(messages, RootName(options), fields)
    /\ pc' = "render"
    /\ UNCHANGED <<schema, options, enums, fields, outcome, argument, applied>>

\* The document is rendered from the two Maps and returned.
Render ==
    /\ pc = "render"
    /\ outcome' = Returned(ProtoDefinition(PackageNameOf(options), enums, messages))
    /\ pc' = "returned"
    /\ UNCHANGED <<schema, options, messages, enums, fields, argument, applied>>

\* The caller has the result; the locals of the call are gone.
Discard ==
    /\ pc \in {"returned", "thrown"}
    /\ pc' = "idle"
    /\ schema' = NoSchema
    /\ options' = NoOptions
    /\ messages' = <<>>
    /\ enums' = <<>>
    /\ fields' = <<>>
    /\ outcome' = NoOutcome
    /\ UNCHANGED nameVars

Next ==
    \/ \E s \in Schemas, o \in OptionSets : Call(s, o)
    \/ TraverseReturns
    \/ TraverseThrows
    \/ RegisterRoot
    \/ Render
    \/ Discard

Spec == Init /\ [][Next]_vars

(***************************************************************************)
(* The schema tree, as the properties read it                              *)
(***************************************************************************)

Range(seq) == {seq[i] : i \in 1..Len(seq)}

IsWrapper(v) == v.kind \in {"ZodOptional", "ZodNullable"}
IsContainer(v) == v.kind \in {"ZodArray", "ZodSet"}
ElementOf(v) == IF v.kind = "ZodArray" THEN v.element ELSE v.valueType

\* The node under all its Optional/Nullable wrappers.
RECURSIVE Strip(_)
Strip(v) == IF IsWrapper(v) THEN Strip(v.innerType) ELSE v

Children(v) ==
    CASE IsWrapper(v) -> {v.innerType}
      [] IsContainer(v) -> {ElementOf(v)}
      [] v.kind = "ZodMap" -> {v.keyType, v.valueType}
      [] v.kind = "ZodTuple" -> Range(v.items)
      [] v.kind = "ZodObject" -> {e.value : e \in Range(v.shape)}
      [] OTHER -> {}

\* Every node of the tree under v, v included.
RECURSIVE SubNodes(_)
SubNodes(v) == {v} \cup UNION {SubNodes(c) : c \in Children(v)}

SubObjects(v) == {n \in SubNodes(v) : n.kind = "ZodObject"}

Visit(role, key, value, inArray) ==
    [role |-> role, key |-> key, value |-> value, inArray |-> inArray]

\* What traverseKey returns at a visit.
CompileSite(visit) ==
    traverseKey(visit.key, visit.value, <<>>, <<>>, FALSE, visit.inArray,
                TypePrefixOf(options))

\* The calls traverseKey({ key, value, isOptional: false, isInArray }) made
\* while the node v is compiled under `key` with isInArray = inArray: for a
\* field of an object ("field", by traverseSchema), an item of a tuple
\* ("item"), the element of an array or set ("element", by traverseArray) and
\* the key and the value of a map ("mapKey", "mapValue", by traverseMap), each
\* with the key and the isInArray it is made with.  The calls are made in
\* order and end with the first that throws: the fields and items behind it
\* are not compiled, nor is the value of a map whose key throws.
RECURSIVE VisitsUnder(_, _, _)
RECURSIVE VisitsInOrder(_)
VisitsInOrder(calls) ==
    IF calls = <<>> THEN {}
    ELSE {Head(calls)}
            \cup VisitsUnder(Head(calls).key, Head(calls).value, Head(calls).inArray)
            \cup (IF CompileSite(Head(calls)).ok THEN VisitsInOrder(Tail(calls)) ELSE {})
VisitsUnder(key, v, inArray) ==
    LET n == Strip(v)
    IN  CASE IsContainer(n) ->
                VisitsInOrder(<<Visit("element", singularize(key), ElementOf(n), TRUE)>>)
          [] n.kind = "ZodMap" ->
                VisitsInOrder(<<Visit("mapKey", key \o <<"K", "e", "y">>, n.keyType, TRUE),
                                Visit("mapValue", key \o <<"V", "a", "l", "u", "e">>,
                                      n.valueType, TRUE)>>)
          [] n.kind = "ZodTuple" ->
                VisitsInOrder([i \in 1..Len(n.items) |->
                                  Visit("item", TupleItemKey(key, i - 1), n.items[i], inArray)])
          [] n.kind = "ZodObject" ->
                VisitsInOrder([i \in 1..Len(n.shape) |->
                                  Visit("field", n.shape[i].key, n.shape[i].value, FALSE)])
          [] OTHER -> {}

\* The calls of traverseKey of the current call of zodToProtobuf: none when
\* the root is no ZodObject, which traverseSchema rejects at once.
Visits == IF schema.kind = "ZodObject" THEN VisitsUnder(<<>>, schema, FALSE) ELSE {}

\* The calls that give a message one of its field lines.
FieldSites == {visit \in Visits : visit.role \in {"field", "item"}}

\* The traversal of the current call has returned.
Traversed == pc \in {"register", "render", "returned"}

(***************************************************************************)
(* Reading a rendered field line                                           *)
(***************************************************************************)

\* `... = ${number};`
NumberSuffix(number) == <<SP, "=", SP>> \o NumberToString(number) \o <<";">>

\* The lines of a tuple wrapper start with two spaces, the lines of an
\* object's message with the first token of the type.
IsTupleBody(body) == body # <<>> /\ \A i \in 1..Len(body) : StartsWith(body[i], <<SP, SP>>)

\* body[i] carries the number i, for every i.
NumberedFromOne(body) ==
    \A i \in 1..Len(body) : EndsWith(body[i], NumberSuffix(i))

\* body[i] is the line of the field named names[i] and carries the number i.
NamedAndNumbered(body, names) ==
    /\ Len(body) = Len(names)
    /\ \A i \in 1..Len(body) : EndsWith(body[i], <<SP>> \o names[i] \o NumberSuffix(i))

\* The names of the descriptors that traverseKey returns for the entries of
\* an object's shape, in the order of the declaration.
ShapeFieldNames(obj) ==
    [i \in 1..Len(obj.shape) |->
        traverseKey(obj.shape[i].key, obj.shape[i].value, <<>>, <<>>, FALSE, FALSE,
                    TypePrefixOf(options)).value[1].name]

\* What traverseSchema returns for an object of the schema.
CompileObject(obj) == traverseSchema(obj, <<>>, <<>>, TypePrefixOf(options))

(***************************************************************************)
(* C1: field numbers                                                       *)
(***************************************************************************)

\* C1. In every message of the registry, at every point of every call, and in
\* the root's field list, the i-th line carries the field number i: the
\* numbers are 1..n, n the message's own line count.  After the traversal the
\* root has one line per declared field, in declaration order; every
\* registered object message is the compile of an object of the schema, which
\* has one line per declared field, the i-th line being the line of the
\* descriptor compiled from the i-th declared field and carrying the number i;
\* every tuple wrapper holds the lines of items 0..n-1 in order.
C1_FieldNumbersSequentialPerMessage ==
    /\ \A i \in 1..Len(messages) : NumberedFromOne(messages[i].body)
    /\ NumberedFromOne(fields)
    /\ Traversed =>
        /\ NamedAndNumbered(fields, ShapeFieldNames(schema))
        /\ \A obj \in SubObjects(schema) :
                NamedAndNumbered(CompileObject(obj).value, ShapeFieldNames(obj))
        /\ \A i \in 1..Len(messages) :
             LET body == messages[i].body
             IN  \/ /\ IsTupleBody(body)
                    /\ \A j \in 1..Len(body) :
                          EndsWith(body[j], <<"_">> \o NumberToString(j - 1)
                                                \o NumberSuffix(j))
                 \/ \E obj \in SubObjects(schema) : body = CompileObject(obj).value

\* A compile has returned a document with a two-field root, a nested object
\* message and a tuple wrapper of two fields.
C1_Witness ==
    /\ pc = "returned"
    /\ Len(schema.shape) = 2
    /\ \E i, j \in 1..Len(messages) :
          /\ IsTupleBody(messages[i].body) /\ Len(messages[i].body) = 2
          /\ ~IsTupleBody(messages[j].body) /\ messages[j].name # RootName(options)

(***************************************************************************)
(* C2: the optional modifier                                               *)
(***************************************************************************)

\* The descriptor carries the modifier in front of its type name.
HasModifier(field, modifier) ==
    \E i \in 1..(Len(field.types) - 1) : field.types[i] = modifier

CountModifier(field, modifier) ==
    Cardinality({i \in 1..(Len(field.types) - 1) : field.types[i] = modifier})

\* The rendered line carries the token.
LineHasToken(line, token) == token \in Range(Split(line, SP))

\* The wrapper message a tuple visit registers.
TupleBody(visit) == MapGet(CompileSite(visit).messages, toPascalCase(visit.key))

\* The claim as written: a field carries `optional` exactly when its node is
\* wrapped in Optional/Nullable and it is no direct array/set element.
C2_Original ==
    Traversed =>
        \A visit \in FieldSites :
            HasModifier(CompileSite(visit).value[1], Optional)
                <=> (IsWrapper(visit.value) /\ visit.role # "element")

\* A field is to carry `optional`: its node is wrapped, the node under the
\* wrappers is no Array, Set or Map, and it is not compiled with isInArray.
OptionalExpected(value, inArray) ==
    /\ IsWrapper(value)
    /\ Strip(value).kind \notin {"ZodArray", "ZodSet", "ZodMap"}
    /\ ~inArray

\* C2 (amended). A field of a message carries `optional` if and only if its
\* node is wrapped in Optional/Nullable, the node under the wrappers is not an
\* Array, Set or Map, and the field is not compiled with isInArray (it is not
\* an item of a tuple that is an array/set element or a map key or value).
\* This holds of the descriptor of every field, of the lines of the root, of
\* the lines of every object of the schema and of every tuple wrapper.
C2_OptionalIffWrappedOutsideArrays ==
    Traversed =>
        /\ \A visit \in FieldSites :
             LET r == CompileSite(visit)
             IN  /\ r.ok /\ Len(r.value) = 1
                 /\ HasModifier(r.value[1], Optional)
                        <=> OptionalExpected(visit.value, visit.inArray)
        /\ \A i \in 1..Len(fields) :
             LineHasToken(fields[i], Optional)
                 <=> OptionalExpected(schema.shape[i].value, FALSE)
        /\ \A obj \in SubObjects(schema) : \A i \in 1..Len(obj.shape) :
             LineHasToken(CompileObject(obj).value[i], Optional)
                 <=> OptionalExpected(obj.shape[i].value, FALSE)
        /\ \A visit \in Visits :
             Strip(visit.value).kind = "ZodTuple" =>
                \A i \in 1..Len(Strip(visit.value).items) :
                    LineHasToken(TupleBody(visit)[i], Optional)
                        <=> OptionalExpected(Strip(visit.value).items[i], visit.inArray)

\* A compile has returned a root with a wrapped scalar field, which carries
\* `optional`, and a wrapped array field, which carries `repeated` alone.
C2_Witness ==
    /\ pc = "returned"
    /\ \E i, j \in 1..Len(fields) :
          /\ IsWrapper(schema.shape[i].value)
          /\ Strip(schema.shape[i].value).kind = "ZodString"
          /\ LineHasToken(fields[i], Optional)
          /\ IsWrapper(schema.shape[j].value)
          /\ Strip(schema.shape[j].value).kind = "ZodArray"
          /\ ~LineHasToken(fields[j], Optional)
          /\ LineHasToken(fields[j], Repeated)

(***************************************************************************)
(* C3: the repeated modifier                                               *)
(***************************************************************************)

\* The Array/Set layers of a node, Optional/Nullable wrappers around and
\* between the layers being transparent.
RECURSIVE ArrayDepth(_)
ArrayDepth(v) ==
    LET n == Strip(v) IN IF IsContainer(n) THEN 1 + ArrayDepth(ElementOf(n)) ELSE 0

\* The Object and Tuple nodes of a tree, each as often as it occurs: the
\* messages a compile of the tree can register.
RECURSIVE CountMessageNodes(_)
RECURSIVE SumMessageNodes(_)
SumMessageNodes(nodes) ==
    IF nodes = <<>> THEN 0
    ELSE CountMessageNodes(Head(nodes)) + SumMessageNodes(Tail(nodes))
CountMessageNodes(v) ==
    CASE IsWrapper(v) -> CountMessageNodes(v.innerType)
      [] IsContainer(v) -> CountMessageNodes(ElementOf(v))
      [] v.kind = "ZodMap" -> CountMessageNodes(v.keyType) + CountMessageNodes(v.valueType)
      [] v.kind = "ZodTuple" -> 1 + SumMessageNodes(v.items)
      [] v.kind = "ZodObject" ->
            1 + SumMessageNodes([i \in 1..Len(v.shape) |-> v.shape[i].value])
      [] OTHER -> 0

\* The tokens in front of a rendered line that are `repeated`.
RECURSIVE LeadingCount(_, _)
LeadingCount(tokens, token) ==
    IF tokens # <<>> /\ Head(tokens) = token
    THEN 1 + LeadingCount(Tail(tokens), token)
    ELSE 0
LeadingRepeated(line) ==
    LeadingCount(SelectSeq(Split(line, SP), LAMBDA t : t # <<>>), Repeated)

\* C3. A field of a message carries `repeated` if and only if its node, under
\* its Optional/Nullable wrappers, is an Array or Set, and it carries one
\* `repeated` per Array/Set layer (wrappers between the layers are
\* transparent); this holds of every descriptor, of the lines of the root and
\* of every tuple wrapper.  No message is registered for a container: the
\* registry never holds more messages than the schema has Object and Tuple
\* nodes.
C3_RepeatedPerArrayLayer ==
    Traversed =>
        /\ \A visit \in FieldSites :
             LET field == CompileSite(visit).value[1]
             IN  /\ HasModifier(field, Repeated) <=> IsContainer(Strip(visit.value))
                 /\ CountModifier(field, Repeated) = ArrayDepth(visit.value)
        /\ \A i \in 1..Len(fields) :
             LeadingRepeated(fields[i]) = ArrayDepth(schema.shape[i].value)
        /\ \A visit \in Visits :
             Strip(visit.value).kind = "ZodTuple" =>
                \A i \in 1..Len(Strip(visit.value).items) :
                    LeadingRepeated(TupleBody(visit)[i])
                        = ArrayDepth(Strip(visit.value).items[i])
        /\ Len(messages) + (IF pc = "register" THEN 1 ELSE 0) <= CountMessageNodes(schema)

\* A compile has returned a field of two nested containers of objects: its
\* line carries `repeated repeated`, and the registry holds the element's
\* message and the root only.
C3_Witness ==
    /\ pc = "returned"
    /\ Len(fields) = 1
    /\ ArrayDepth(schema.shape[1].value) = 2
    /\ LeadingRepeated(fields[1]) = 2
    /\ Strip(ElementOf(Strip(ElementOf(Strip(schema.shape[1].value))))).kind = "ZodObject"
    /\ Len(messages) = 2

(***************************************************************************)
(* C4: scalar leaves                                                       *)
(***************************************************************************)

IsScalarLeaf(v) ==
    v.kind \in {"ZodString", "ZodNumber", "ZodBoolean", "ZodDate", "ZodBigInt"}

\* The type the specification gives a scalar leaf.
ExpectedScalarType(v) ==
    CASE v.kind = "ZodString" -> <<"s", "t", "r", "i", "n", "g">>
      [] v.kind = "ZodNumber" /\ v.isInt -> <<"i", "n", "t", "3", "2">>
      [] v.kind = "ZodNumber" /\ ~v.isInt -> <<"d", "o", "u", "b", "l", "e">>
      [] v.kind = "ZodBoolean" -> <<"b", "o", "o", "l">>
      [] v.kind = "ZodDate" -> <<"s", "t", "r", "i", "n", "g">>
      [] v.kind = "ZodBigInt" -> <<"i", "n", "t", "6", "4">>

\* C4. A field whose node is a bare scalar leaf, compiled outside arrays,
\* gives exactly one descriptor, with no modifier and the type of the leaf's
\* kind; in the message of its object it is the line `<type> <key> = <i>;`.
C4_ScalarLeafTypes ==
    Traversed =>
        /\ \A visit \in FieldSites :
             (IsScalarLeaf(visit.value) /\ ~visit.inArray) =>
                CompileSite(visit).value
                    = <<ProtobufField(<<Null, ExpectedScalarType(visit.value)>>, visit.key)>>
        /\ \A i \in 1..Len(schema.shape) :
             IsScalarLeaf(schema.shape[i].value) =>
                fields[i] = ExpectedScalarType(schema.shape[i].value) \o <<SP>>
                                \o schema.shape[i].key \o NumberSuffix(i)
        /\ \A obj \in SubObjects(schema) : \A i \in 1..Len(obj.shape) :
             IsScalarLeaf(obj.shape[i].value) =>
                CompileObject(obj).value[i]
                    = ExpectedScalarType(obj.shape[i].value) \o <<SP>>
                          \o obj.shape[i].key \o NumberSuffix(i)

\* A compile has returned a root whose field is a bare non-integer number,
\* rendered as `double <key> = 1;`.
C4_Witness ==
    /\ pc = "returned"
    /\ Len(schema.shape) = 1
    /\ schema.shape[1].value = ZNumber(FALSE)
    /\ fields = << <<"d", "o", "u", "b", "l", "e", SP>> \o schema.shape[1].key
                      \o NumberSuffix(1) >>

(***************************************************************************)
(* C5: typePrefix                                                          *)
(***************************************************************************)

\* The type name of a descriptor: the last entry of its types.
TypeNameOf(field) == field.types[Len(field.types)]

NamesAType(v) == Strip(v).kind \in {"ZodObject", "ZodEnum", "ZodTuple"}

\* C5. With a non-empty typePrefix, every message name and every enum name of
\* the registries begins with typePrefix, every field that references an
\* object's message, an enum or a tuple wrapper references a name that begins
\* with typePrefix, and the field's own name is its key.
C5_EveryTypeNamePrefixed ==
    (pc = "returned" /\ TypePrefixOf(options) # <<>>) =>
        /\ \A i \in 1..Len(messages) : StartsWith(messages[i].name, TypePrefixOf(options))
        /\ \A i \in 1..Len(enums) : StartsWith(enums[i].name, TypePrefixOf(options))
        /\ \A visit \in Visits :
             NamesAType(visit.value) =>
                /\ StartsWith(TypeNameOf(CompileSite(visit).value[1]), TypePrefixOf(options))
                /\ CompileSite(visit).value[1].name = visit.key

(***************************************************************************)
(* C6, C7, C8: inputs that are rejected                                    *)
(***************************************************************************)

SupportedKinds ==
    {"ZodObject", "ZodString", "ZodNumber", "ZodBoolean", "ZodDate", "ZodBigInt",
     "ZodEnum", "ZodArray", "ZodSet", "ZodTuple", "ZodMap", "ZodOptional", "ZodNullable"}

UnsupportedNodes(v) == {n \in SubNodes(v) : n.kind \notin SupportedKinds}

\* What the error says of a node below the root: the name of its constructor
\* or, for a value that is no ZodType, its typeof.
KindIdentifier(n) == IF n.kind = "foreign" THEN n.typeOf ELSE ConstructorName[n.kind]

\* The call has ended or is past its traversal.
Decided == pc \in {"register", "render", "returned", "thrown"}

\* C6. When a node of an unsupported kind is reachable from an Object root,
\* the call throws an UnsupportedTypeException whose message is
\* "Unsupported type: " followed by the kind of an unsupported node of the
\* schema, and it returns no text, whatever the registries hold by then.
C6_UnsupportedNodeAborts ==
    (Decided /\ schema.kind = "ZodObject" /\ UnsupportedNodes(schema) # {}) =>
        /\ pc = "thrown"
        /\ outcome.kind = "throw"
        /\ outcome.text = <<>>
        /\ outcome.error.name = "UnsupportedTypeException"
        /\ \E n \in UnsupportedNodes(schema) :
              outcome.error.message = UnsupportedPrefix \o KindIdentifier(n)

\* A compile has thrown "Unsupported type: ZodAny" after a message was
\* registered for an earlier field.
C6_Witness ==
    /\ pc = "thrown"
    /\ schema.kind = "ZodObject"
    /\ Len(messages) >= 1
    /\ outcome.error.message = UnsupportedPrefix \o <<"Z", "o", "d", "A", "n", "y">>

\* What the error says of a root that is no ZodObject: the name of its
\* constructor.
RootIdentifier(v) == IF v.kind = "foreign" THEN v.ctor ELSE ConstructorName[v.kind]

\* C7. A call whose schema is not a ZodObject throws an
\* UnsupportedTypeException naming the constructor of the input and returns
\* nothing.
C7_NonObjectRootUnsupported ==
    (Decided /\ schema.kind # "ZodObject") =>
        /\ pc = "thrown"
        /\ outcome.kind = "throw"
        /\ outcome.error.name = "UnsupportedTypeException"
        /\ outcome.error.message = UnsupportedPrefix \o RootIdentifier(schema)

\* The document of the call when its schema is `sch`; no text when the call
\* throws.
DocumentFor(sch) ==
    LET Document(r) ==
            IF r.ok
            THEN ProtoDefinition(PackageNameOf(options), r.enums,
                                 MapSet(r.messages, RootName(options), r.value))
            ELSE <<>>
    IN  Document(traverseSchema(sch, <<>>, <<>>, TypePrefixOf(options)))

\* The claim as written: a wrapped root that resolves to an Object compiles
\* to the document of the bare Object.
C8_Original ==
    (pc \in {"returned", "thrown"} /\ IsWrapper(schema)
        /\ Strip(schema).kind = "ZodObject" /\ UnsupportedNodes(schema) = {}) =>
        outcome = Returned(DocumentFor(Strip(schema)))

\* C8 (amended). Only a bare ZodObject passes traverseSchema: a root wrapped
\* in Optional/Nullable is rejected with "Unsupported type: ZodOptional" or
\* "Unsupported type: ZodNullable", also when it resolves to an Object, while
\* an Object root without unsupported nodes does not throw.
C8_WrappedRootRejected ==
    /\ Traversed => schema.kind = "ZodObject"
    /\ (Decided /\ IsWrapper(schema)) =>
          /\ pc = "thrown"
          /\ outcome = Thrown(UnsupportedTypeException(ConstructorName[schema.kind]))
    /\ (Decided /\ schema.kind = "ZodObject" /\ UnsupportedNodes(schema) = {}) =>
          pc # "thrown"

\* The call with an Optional of an Object as its schema has thrown
\* "Unsupported type: ZodOptional".
C8_Witness ==
    /\ pc = "thrown"
    /\ schema.kind = "ZodOptional"
    /\ Strip(schema).kind = "ZodObject"
    /\ outcome.error.message
          = UnsupportedPrefix \o <<"Z", "o", "d", "O", "p", "t", "i", "o", "n", "a", "l">>

(***************************************************************************)
(* C9, C10: the order of the message blocks                                *)
(***************************************************************************)

\* The place of the first occurrence of pat in text, 0 when there is none.
FirstIndex(text, pat) ==
    IF \E i \in 1..Len(text) : OccursAt(text, pat, i)
    THEN CHOOSE i \in 1..Len(text) :
            OccursAt(text, pat, i) /\ \A j \in 1..(i - 1) : ~OccursAt(text, pat, j)
    ELSE 0

\* `message <name> {`, the head of a message block.
BlockHead(name) == <<"m", "e", "s", "s", "a", "g", "e", SP>> \o name \o <<SP, "{">>

\* The type of a rendered field line: the token in front of `<name> = <n>;`.
LineType(line) ==
    LET tokens == SelectSeq(Split(line, SP), LAMBDA t : t # <<>>)
    IN  tokens[Len(tokens) - 3]

\* A line of the body has the message `name` as its type, or as the value
\* type of its map; a name that is also the name of an enum is left out.
References(body, name) ==
    /\ ~MapHas(enums, name)
    /\ \E i \in 1..Len(body) : LineType(body[i]) \in {name, name \o <<">">>}

\* C9. Once the root is registered it is the last entry of the message
\* registry, and the returned document ends with the root's message block.
C9_RootRegisteredLast ==
    pc \in {"render", "returned"} =>
        /\ messages[Len(messages)].name = RootName(options)
        /\ pc = "returned" =>
              EndsWith(outcome.text, MessageBlock(RootName(options), fields))

\* C10. In a returned document, a message block that has a field of the type
\* of another message of the document comes after the block of that message.
C10_DependenciesBeforeReferences ==
    pc = "returned" =>
        \A i, j \in 1..Len(messages) :
            (i # j /\ References(messages[i].body, messages[j].name)) =>
                /\ j < i
                /\ FirstIndex(outcome.text, BlockHead(messages[j].name))
                      < FirstIndex(outcome.text, BlockHead(messages[i].name))

(***************************************************************************)
(* C11: enums                                                              *)
(***************************************************************************)

\* The calls of traverseKey whose value is an enum under its wrappers.
EnumSites == {visit \in Visits : Strip(visit.value).kind = "ZodEnum"}

\* The lines of the text of an enum definition.
EnumLines(def) == Split(def, NL)

\* The lines are `enum <name> {`, one line `    <option> = <i>;` for each
\* option in declared order with i counting from 0, and `}`.
ListsOptionsFromZero(lines, name, opts) ==
    /\ Len(lines) = Len(opts) + 2
    /\ lines[1] = <<"e", "n", "u", "m", SP>> \o name \o <<SP, "{">>
    /\ lines[Len(lines)] = <<"}">>
    /\ \A i \in 1..Len(opts) :
          lines[i + 1] = <<SP, SP, SP, SP>> \o opts[i] \o NumberSuffix(i - 1)

\* C11. Compiling an enum with n options under a key registers, under the
\* generated enum name, a definition that lists exactly the n options in
\* declared order with the indices 0..n-1, and returns exactly one
\* descriptor, named by the key, whose type is the generated enum name; after
\* the traversal of a call the enum registry holds an entry of that name.
C11_EnumOptionsIndexedFromZero ==
    schema # NoSchema =>
        \A visit \in EnumSites :
            LET r == CompileSite(visit)
                name == PrefixedTypeName(visit.key, TypePrefixOf(options))
                opts == Strip(visit.value).options
            IN  /\ r.ok
                /\ Len(r.value) = 1
                /\ r.value[1].name = visit.key
                /\ TypeNameOf(r.value[1]) = name
                /\ MapHas(r.enums, name)
                /\ Len(MapGet(r.enums, name)) = 1
                /\ ListsOptionsFromZero(EnumLines(MapGet(r.enums, name)[1]), name, opts)
                /\ Traversed => MapHas(enums, name)

\* A call has compiled an object field that is an enum of MaxOptions options,
\* and the registry holds its definition.
C11_Witness ==
    /\ pc = "returned"
    /\ \E visit \in EnumSites :
          /\ visit.role = "field"
          /\ Len(Strip(visit.value).options) = MaxOptions
          /\ MapHas(enums, PrefixedTypeName(visit.key, TypePrefixOf(options)))
          /\ ListsOptionsFromZero(
                 EnumLines(MapGet(enums, PrefixedTypeName(visit.key,
                                                          TypePrefixOf(options)))[1]),
                 PrefixedTypeName(visit.key, TypePrefixOf(options)),
                 Strip(visit.value).options)

(***************************************************************************)
(* C12: indentation of the field lines                                     *)
(***************************************************************************)

\* The lines of the returned document.
DocumentLines == Split(outcome.text, NL)

\* The line that opens the block the line at `index` lies in: the nearest
\* line above it that ends with "{".
BlockOpener(lines, index) ==
    lines[CHOOSE k \in 1..(index - 1) :
              /\ EndsWith(lines[k], <<"{">>)
              /\ \A m \in (k + 1)..(index - 1) : ~EndsWith(lines[m], <<"{">>)]

\* The line at `index` is a field line of a message block.
IsMessageFieldLine(lines, index) ==
    /\ EndsWith(lines[index], <<";">>)
    /\ \E k \in 1..(index - 1) : EndsWith(lines[k], <<"{">>)
    /\ StartsWith(BlockOpener(lines, index), <<"m", "e", "s", "s", "a", "g", "e", SP>>)

\* Exactly four spaces, then the first token, and single spaces between the
\* tokens.
IndentedByFour(line) ==
    /\ Len(line) > 4
    /\ StartsWith(line, <<SP, SP, SP, SP>>)
    /\ line[5] # SP
    /\ \A i \in 5..(Len(line) - 1) : ~(line[i] = SP /\ line[i + 1] = SP)

\* C12. In a returned document every field line of every message block is
\* indented by exactly four spaces, followed directly by its first token, with
\* single spaces between the tokens.
C12_FieldLinesIndentedByFour ==
    pc = "returned" =>
        \A index \in 1..Len(DocumentLines) :
            IsMessageFieldLine(DocumentLines, index) =>
                IndentedByFour(DocumentLines[index])

(***************************************************************************)
(* C13: tuples                                                             *)
(***************************************************************************)

\* The calls of traverseKey whose value is a tuple under its wrappers.
TupleSites == {visit \in Visits : Strip(visit.value).kind = "ZodTuple"}

\* The tokens of a line: what its spaces separate.
Tokens(line) == SelectSeq(Split(line, SP), LAMBDA t : t # <<>>)

\* "k_i", the name of the field of element i (0-based) of the tuple under k.
ElementName(key, i) == key \o <<"_">> \o NumberToString(i)

\* What compiling element i (0-based) of the tuple of a visit on its own
\* returns.
CompileElement(visit, i) ==
    traverseKey(ElementName(visit.key, i), Strip(visit.value).items[i + 1], <<>>, <<>>,
                FALSE, visit.inArray, TypePrefixOf(options))

\* C13. Compiling a tuple of n elements under the key k registers a wrapper
\* message named toPascalCase(k) with exactly n lines; the line of element i
\* (0-based) has the type compiled from element i, the name "k_i" and the
\* number i+1; an element that is an object is registered as a message of
\* its own, named from "k_i", in front of the wrapper; and the call returns
\* exactly one descriptor, named k, whose type is the wrapper's name.
C13_TupleWrapperMessage ==
    \A visit \in TupleSites :
        LET r == CompileSite(visit)
            items == Strip(visit.value).items
            wrapper == toPascalCase(visit.key)
        IN  r.ok =>
              /\ Len(r.value) = 1
              /\ r.value[1].name = visit.key
              /\ TypeNameOf(r.value[1]) = wrapper
              /\ MapHas(r.messages, wrapper)
              /\ Len(MapGet(r.messages, wrapper)) = Len(items)
              /\ \A i \in 0..(Len(items) - 1) :
                    LET e == CompileElement(visit, i)
                    IN  /\ e.ok
                        /\ Len(e.value) = 1
                        /\ Tokens(MapGet(r.messages, wrapper)[i + 1])
                              = Tokens(protobufFieldToType(e.value[1]) \o <<SP>>
                                           \o ElementName(visit.key, i)
                                           \o NumberSuffix(i + 1))
                        /\ Strip(items[i + 1]).kind = "ZodObject" =>
                              /\ MapHas(r.messages,
                                        PrefixedTypeName(ElementName(visit.key, i),
                                                         TypePrefixOf(options)))
                              /\ MapIndex(r.messages,
                                          PrefixedTypeName(ElementName(visit.key, i),
                                                           TypePrefixOf(options)))
                                    < MapIndex(r.messages, wrapper)

\* A call has returned a document for a schema with a tuple field of two
\* elements whose second element is an object; the registry holds the
\* wrapper and, in front of it, the message of that element.
C13_Witness ==
    /\ pc = "returned"
    /\ \E visit \in TupleSites :
          /\ visit.role = "field"
          /\ Len(Strip(visit.value).items) = 2
          /\ Strip(visit.value).items[2].kind = "ZodObject"
          /\ MapHas(messages, toPascalCase(visit.key))
          /\ Len(MapGet(messages, toPascalCase(visit.key))) = 2
          /\ MapHas(messages, PrefixedTypeName(ElementName(visit.key, 1),
                                               TypePrefixOf(options)))

(***************************************************************************)
(* C14, C15: maps                                                          *)
(***************************************************************************)

\* The calls of traverseKey whose value is a map under its wrappers.
MapSites == {visit \in Visits : Strip(visit.value).kind = "ZodMap"}

\* `${key}Key` and `${key}Value`
MapKeyName(key) == key \o <<"K", "e", "y">>
MapValueName(key) == key \o <<"V", "a", "l", "u", "e">>

\* What compiling the key and the value of the map of a visit on their own
\* returns.
CompileMapKey(visit) ==
    traverseKey(MapKeyName(visit.key), Strip(visit.value).keyType, <<>>, <<>>,
                FALSE, TRUE, TypePrefixOf(options))
CompileMapValue(visit) ==
    traverseKey(MapValueName(visit.key), Strip(visit.value).valueType, <<>>, <<>>,
                FALSE, TRUE, TypePrefixOf(options))

\* `map<K, V>`
MapTypeOf(K, V) == <<"m", "a", "p", "<">> \o K \o <<",", SP>> \o V \o <<">">>

\* The type a map gives a key or value node that is a scalar or an object
\* compiled under `name`.
ExpectedMapOperand(node, name) ==
    IF node.kind = "ZodObject" THEN PrefixedTypeName(name, TypePrefixOf(options))
    ELSE ExpectedScalarType(node)

\* C14. Compiling a map under the key k that returns gives exactly one
\* descriptor, named k, of the single type `map<K, V>` with K and V the types
\* compiled from the key and the value schema; with a scalar key and a scalar
\* value nothing is registered; with an object value the message registry
\* holds a message named from "<k>Value" (with the prefix) and V is that name.
C14_MapFieldType ==
    \A visit \in MapSites :
        LET r == CompileSite(visit)
            k == CompileMapKey(visit)
            v == CompileMapValue(visit)
            keyNode == Strip(visit.value).keyType
            valueNode == Strip(visit.value).valueType
        IN  r.ok =>
              /\ k.ok /\ v.ok
              /\ Len(r.value) = 1
              /\ r.value[1].name = visit.key
              /\ r.value[1].types
                    = <<MapTypeOf(protobufFieldToType(k.value[1]),
                                  protobufFieldToType(v.value[1]))>>
              /\ (IsScalarLeaf(keyNode) /\ IsScalarLeaf(valueNode)) =>
                    /\ r.messages = <<>>
                    /\ r.enums = <<>>
              /\ (IsScalarLeaf(keyNode) /\ (IsScalarLeaf(valueNode)
                                            \/ valueNode.kind = "ZodObject")) =>
                    r.value[1].types
                        = <<MapTypeOf(ExpectedScalarType(keyNode),
                                      ExpectedMapOperand(valueNode,
                                                         MapValueName(visit.key)))>>
              /\ valueNode.kind = "ZodObject" =>
                    /\ MapHas(r.messages,
                              PrefixedTypeName(MapValueName(visit.key),
                                               TypePrefixOf(options)))
                    /\ Cardinality({i \in 1..Len(r.messages) :
                                       r.messages[i].name
                                           = PrefixedTypeName(MapValueName(visit.key),
                                                              TypePrefixOf(options))}) = 1
                    /\ IsScalarLeaf(keyNode) /\ SubObjects(valueNode) = {valueNode}
                           /\ (\A n \in SubNodes(valueNode) : n.kind # "ZodTuple")
                          => Len(r.messages) = 1

\* A call has returned a document for a schema with a map field from a
\* string to an object, and the registry holds the message of the value.
C14_Witness ==
    /\ pc = "returned"
    /\ \E visit \in MapSites :
          /\ visit.role = "field"
          /\ Strip(visit.value).keyType.kind = "ZodString"
          /\ Strip(visit.value).valueType.kind = "ZodObject"
          /\ MapHas(messages, PrefixedTypeName(MapValueName(visit.key),
                                               TypePrefixOf(options)))
          /\ \E i \in 1..Len(fields) :
                LineHasToken(fields[i],
                             PrefixedTypeName(MapValueName(visit.key),
                                              TypePrefixOf(options)) \o <<">">>)

\* The node does not resolve to one descriptor of a single type: it is an
\* Array or a Set, or it is wrapped in Optional/Nullable.
NotSingleType(node) == IsWrapper(node) \/ IsContainer(node)

\* C15. Compiling a map whose key or value schema is an Array/Set or is
\* wrapped in Optional/Nullable throws an UnsupportedTypeException: it never
\* returns a `map<...>` descriptor.
C15_MapOperandMustBeSingleType ==
    \A visit \in MapSites :
        (NotSingleType(Strip(visit.value).keyType)
            \/ NotSingleType(Strip(visit.value).valueType)) =>
            /\ ~CompileSite(visit).ok
            /\ CompileSite(visit).error.name = "UnsupportedTypeException"

(***************************************************************************)
(* C16: the names of array fields and of the types of their elements       *)
(***************************************************************************)

\* The calls of traverseKey whose value is an Array or a Set under its
\* wrappers.
ArraySites == {visit \in Visits : IsContainer(Strip(visit.value))}

\* The node under all the Array/Set layers and Optional/Nullable wrappers of
\* a node.
RECURSIVE InnermostElement(_)
InnermostElement(v) ==
    IF IsWrapper(v) THEN InnermostElement(v.innerType)
    ELSE IF IsContainer(v) THEN InnermostElement(ElementOf(v))
    ELSE v

\* C16. Compiling an Array or Set under the key k that returns gives exactly
\* one descriptor and its name is k itself; when the element under all the
\* array layers is an object, the message registered for it is named from
\* singularize(k), and when it is an enum, so is the enum; after the
\* traversal of a call the registries hold these names.
C16_ArrayFieldKeepsKeyElementSingular ==
    \A visit \in ArraySites :
        LET r == CompileSite(visit)
            element == InnermostElement(visit.value)
            elementName == PrefixedTypeName(singularize(visit.key), TypePrefixOf(options))
        IN  r.ok =>
              /\ Len(r.value) = 1
              /\ r.value[1].name = visit.key
              /\ Head(r.value[1].types) = Repeated
              /\ element.kind = "ZodObject" =>
                    /\ MapHas(r.messages, elementName)
                    /\ TypeNameOf(r.value[1]) = elementName
                    /\ Traversed => MapHas(messages, elementName)
              /\ element.kind = "ZodEnum" =>
                    /\ MapHas(r.enums, elementName)
                    /\ TypeNameOf(r.value[1]) = elementName
                    /\ Traversed => MapHas(enums, elementName)

\* A call has returned a document for a root whose field `users` is an array
\* of objects: the root has the line `repeated <prefix>User users = <n>;` and
\* the registry holds the message <prefix>User.
C16_Witness ==
    /\ pc = "returned"
    /\ \E visit \in ArraySites :
          /\ visit.role = "field"
          /\ visit.key = KeyUsers
          /\ InnermostElement(visit.value).kind = "ZodObject"
          /\ MapHas(messages, PrefixedTypeName(<<"u", "s", "e", "r">>, TypePrefixOf(options)))
          /\ \E i \in 1..Len(fields) :
                Tokens(fields[i])
                    = <<Repeated,
                        PrefixedTypeName(<<"u", "s", "e", "r">>, TypePrefixOf(options)),
                        KeyUsers, <<"=">>, NumberToString(i) \o <<";">> >>

(***************************************************************************)
(* C17: a call depends on its own schema and options only                  *)
(***************************************************************************)

\* What the call zodToProtobuf(sch, opts) does when nothing came before it:
\* the document it returns or the exception it throws.
OutcomeOf(sch, opts) ==
    LET r == traverseSchema(sch, <<>>, <<>>, TypePrefixOf(opts))
    IN  IF r.ok
        THEN Returned(ProtoDefinition(PackageNameOf(opts), r.enums,
                                      MapSet(r.messages, RootName(opts), r.value)))
        ELSE Thrown(r.error)

\* C17. Whatever calls came before, succeeded or failed, a call starts its
\* traversal on two empty registries, and what it returns or throws is what
\* the same schema and options give on their own: the outcome is a function
\* of the schema and the options of the call.
C17_OutcomeDependsOnCallOnly ==
    /\ pc = "traverse" => (messages = <<>> /\ enums = <<>> /\ fields = <<>>)
    /\ pc \in {"returned", "thrown"} => outcome = OutcomeOf(schema, options)
    /\ pc = "returned" => outcome.kind = "return"
    /\ pc = "thrown" => outcome.kind = "throw"

\* A call has returned the document of a schema that registers an enum and
\* at least two messages.
C17_Witness ==
    /\ pc = "returned"
    /\ enums # <<>>
    /\ Len(messages) >= 2
    /\ outcome = OutcomeOf(schema, options)
    /\ outcome.text # <<>>

(***************************************************************************)
(* C18: never `repeated` and `optional` together                           *)
(***************************************************************************)

\* The text holds the word somewhere, inside a map type too.
Mentions(text, word) == \E i \in 1..Len(text) : OccursAt(text, word, i)

\* The text holds both modifiers.
RepeatedAndOptional(text) == Mentions(text, Repeated) /\ Mentions(text, Optional)

\* C18. No descriptor returned by a call of traverseKey holds both
\* `repeated` and `optional` among its types (a map type string included),
\* and no line of the root's fields, of a registered message or of the
\* returned document holds both.
C18_NeverRepeatedAndOptional ==
    /\ \A visit \in Visits :
          LET r == CompileSite(visit)
          IN  r.ok =>
                \A i \in 1..Len(r.value) :
                    /\ ~(HasModifier(r.value[i], Repeated) /\ HasModifier(r.value[i], Optional))
                    /\ ~RepeatedAndOptional(protobufFieldToType(r.value[i]))
    /\ \A i \in 1..Len(fields) : ~RepeatedAndOptional(fields[i])
    /\ \A i \in 1..Len(messages) :
          \A j \in 1..Len(messages[i].body) : ~RepeatedAndOptional(messages[i].body[j])
    /\ pc = "returned" =>
          \A i \in 1..Len(DocumentLines) : ~RepeatedAndOptional(DocumentLines[i])

\* A call has returned a document for a root whose field is an
\* Optional/Nullable array of Optional/Nullable elements: its line is
\* `repeated` and not `optional`.
C18_Witness ==
    /\ pc = "returned"
    /\ \E visit \in ArraySites :
          /\ visit.role = "field"
          /\ IsWrapper(visit.value)
          /\ IsWrapper(ElementOf(Strip(visit.value)))
          /\ \E i \in 1..Len(fields) :
                /\ EndsWith(fields[i], <<SP>> \o visit.key \o NumberSuffix(i))
                /\ Mentions(fields[i], Repeated)
                /\ ~Mentions(fields[i], Optional)

(***************************************************************************)
(* C19: the layout of the document                                         *)
(***************************************************************************)

\* `syntax = "proto3";`
SyntaxLine ==
    <<"s", "y", "n", "t", "a", "x", SP, "=", SP,
      "\"", "p", "r", "o", "t", "o", "3", "\"", ";">>

\* `package ${packageName};`
PackageLine(packageName) ==
    <<"p", "a", "c", "k", "a", "g", "e", SP>> \o packageName \o <<";">>

IsEnumHead(line) == StartsWith(line, <<"e", "n", "u", "m", SP>>) /\ EndsWith(line, <<"{">>)
IsMessageHead(line) ==
    StartsWith(line, <<"m", "e", "s", "s", "a", "g", "e", SP>>) /\ EndsWith(line, <<"{">>)

\* The lines that open an enum block, and those that open a message block.
EnumHeads(lines) == {i \in 1..Len(lines) : IsEnumHead(lines[i])}
MessageHeads(lines) == {i \in 1..Len(lines) : IsMessageHead(lines[i])}

\* The blocks of the document start at the line `first`: the enum blocks if
\* there is an enum, an empty line, then the message blocks, and the document
\* ends with the last message block.
BlocksFrom(lines, first) ==
    /\ Len(lines) > first
    /\ MessageHeads(lines) # {}
    /\ lines[Len(lines)] = <<"}">>
    /\ \A e \in EnumHeads(lines) : \A m \in MessageHeads(lines) : e < m
    /\ IF enums = <<>>
       THEN EnumHeads(lines) = {} /\ IsMessageHead(lines[first])
       ELSE /\ IsEnumHead(lines[first])
            /\ \E m \in MessageHeads(lines) :
                  /\ \A n \in MessageHeads(lines) : m <= n
                  /\ lines[m - 1] = <<>>
                  /\ lines[m - 2] = <<"}">>

\* C19 as stated: the syntax line, an empty line, the package line, an empty
\* line, then the blocks.
C19_Original ==
    pc = "returned" =>
        /\ DocumentLines[1] = SyntaxLine
        /\ DocumentLines[2] = <<>>
        /\ DocumentLines[3] = PackageLine(PackageNameOf(options))
        /\ DocumentLines[4] = <<>>
        /\ BlocksFrom(DocumentLines, 5)

\* C19. The returned document is, line by line: the syntax line, directly
\* under it the package line, an empty line, the enum blocks when there is an
\* enum followed by an empty line, then the message blocks; its first and its
\* last line are not empty.
C19_DocumentLayout ==
    pc = "returned" =>
        /\ DocumentLines[1] = SyntaxLine
        /\ DocumentLines[2] = PackageLine(PackageNameOf(options))
        /\ DocumentLines[3] = <<>>
        /\ BlocksFrom(DocumentLines, 4)
        /\ Head(outcome.text) # NL
        /\ outcome.text[Len(outcome.text)] # NL

\* A call has returned a document with an enum block and two message blocks.
C19_Witness ==
    /\ pc = "returned"
    /\ EnumHeads(DocumentLines) # {}
    /\ Cardinality(MessageHeads(DocumentLines)) >= 2
    /\ DocumentLines[2] = PackageLine(PackageNameOf(options))

(***************************************************************************)
(* C20: the order of the blocks                                            *)
(***************************************************************************)

\* The call of traverseKey on the node v under `key` returns; whether it
\* does depends neither on the registries nor on isOptional and isInArray.
Returns(key, v) ==
    traverseKey(key, v, <<>>, <<>>, FALSE, FALSE, TypePrefixOf(options)).ok

\* The names that compiling the node v under `key` registers in the message
\* registry (which = "message") or in the enum registry (which = "enum"), in
\* the order of the calls of Map.set: the types found below a node are
\* registered before the node's own type, fields and items from left to
\* right.  The first call that throws ends the compile: what stands behind
\* it is not compiled, and the node's own type is not registered.
RECURSIVE RegisteredNames(_, _, _)
RECURSIVE RegisteredByEntries(_, _)
RECURSIVE RegisteredByItems(_, _, _, _)
RegisteredByEntries(shape, which) ==
    IF shape = <<>> THEN <<>>
    ELSE RegisteredNames(Head(shape).key, Head(shape).value, which)
             \o (IF Returns(Head(shape).key, Head(shape).value)
                 THEN RegisteredByEntries(Tail(shape), which) ELSE <<>>)
RegisteredByItems(key, items, index, which) ==
    IF index >= Len(items) THEN <<>>
    ELSE RegisteredNames(ElementName(key, index), items[index + 1], which)
             \o (IF Returns(ElementName(key, index), items[index + 1])
                 THEN RegisteredByItems(key, items, index + 1, which) ELSE <<>>)
RegisteredNames(key, v, which) ==
    CASE IsWrapper(v) -> RegisteredNames(key, v.innerType, which)
      [] IsContainer(v) -> RegisteredNames(singularize(key), ElementOf(v), which)
      [] v.kind = "ZodMap" ->
            RegisteredNames(MapKeyName(key), v.keyType, which)
                \o (IF Returns(MapKeyName(key), v.keyType)
                    THEN RegisteredNames(MapValueName(key), v.valueType, which) ELSE <<>>)
      [] v.kind = "ZodTuple" ->
            RegisteredByItems(key, v.items, 0, which)
                \o (IF which = "message" /\ Returns(key, v)
                    THEN <<toPascalCase(key)>> ELSE <<>>)
      [] v.kind = "ZodObject" ->
            RegisteredByEntries(v.shape, which)
                \o (IF which = "message" /\ Returns(key, v)
                    THEN <<PrefixedTypeName(key, TypePrefixOf(options))>> ELSE <<>>)
      [] v.kind = "ZodEnum" ->
            IF which = "enum"
            THEN <<PrefixedTypeName(key, TypePrefixOf(options))>> ELSE <<>>
      [] OTHER -> <<>>

\* The names of a sequence in the order of their first occurrence.
RECURSIVE FirstOccurrences(_)
FirstOccurrences(names) ==
    IF names = <<>> THEN <<>>
    ELSE LET front == FirstOccurrences(SubSeq(names, 1, Len(names) - 1))
             last == names[Len(names)]
         IN  IF last \in Range(front) THEN front ELSE Append(front, last)

\* The names of the enums and of the messages of the current call in the
\* order of their first registration: none when the root is no ZodObject,
\* and the root's message, at the end, when the traversal returns.
EnumsFirstRegistered ==
    IF schema.kind # "ZodObject" THEN <<>>
    ELSE FirstOccurrences(RegisteredByEntries(schema.shape, "enum"))
MessagesFirstRegistered ==
    IF schema.kind # "ZodObject" THEN <<>>
    ELSE FirstOccurrences(RegisteredByEntries(schema.shape, "message")
                              \o (IF Returns(<<>>, schema)
                                  THEN <<RootName(options)>> ELSE <<>>))

\* The names on the lines that open the enum blocks and the message blocks
\* of the document, from top to bottom.
EnumBlockNames(lines) ==
    LET heads == SelectSeq(lines, IsEnumHead)
    IN  [i \in 1..Len(heads) |-> SubSeq(heads[i], 6, Len(heads[i]) - 2)]
MessageBlockNames(lines) ==
    LET heads == SelectSeq(lines, IsMessageHead)
    IN  [i \in 1..Len(heads) |-> SubSeq(heads[i], 9, Len(heads[i]) - 2)]

\* C20. In a returned document every enum block comes before every message
\* block; the enum blocks are in the order in which their names were first
\* registered during the traversal, and so are the message blocks; the first
\* block starts on line 4 and every other block is separated from the block
\* before it by exactly one empty line.
C20_EnumsThenMessagesInRegistrationOrder ==
    pc = "returned" =>
        /\ \A e \in EnumHeads(DocumentLines) : \A m \in MessageHeads(DocumentLines) : e < m
        /\ EnumBlockNames(DocumentLines) = EnumsFirstRegistered
        /\ MessageBlockNames(DocumentLines) = MessagesFirstRegistered
        /\ \A h \in EnumHeads(DocumentLines) \cup MessageHeads(DocumentLines) :
              \/ h = 4
              \/ /\ h > 4
                 /\ DocumentLines[h - 1] = <<>>
                 /\ DocumentLines[h - 2] = <<"}">>

\* A call has returned a document in which an enum found inside a nested
\* object stands in front of two message blocks.
C20_Witness ==
    /\ pc = "returned"
    /\ Len(EnumBlockNames(DocumentLines)) >= 1
    /\ Len(MessageBlockNames(DocumentLines)) >= 2
    /\ \E obj \in SubObjects(schema) :
          /\ obj # schema
          /\ \E e \in Range(obj.shape) : Strip(e.value).kind = "ZodEnum"

(***************************************************************************)
(* C21: toPascalCase applied to its own result                             *)
(***************************************************************************)

\* Longest string handed to toPascalCase.
MaxWordLength == 4
\* Number of times toPascalCase is applied in a row.
MaxApplications == 2

\* A lower-case letter, an upper-case letter, the separator and a digit.
WordCharacters == {"a", "B", ".", "1", "é", "ß"}

RECURSIVE WordsOfLength(_)
WordsOfLength(n) ==
    IF n = 0 THEN {<<>>}
    ELSE {Append(w, c) : w \in WordsOfLength(n - 1), c \in WordCharacters}

\* The strings handed to toPascalCase: the words over WordCharacters, and
\* every code unit that toUpperCase changes as a string of its own.
Words ==
    UNION {WordsOfLength(n) : n \in 0..MaxWordLength}
        \cup {<<c>> : c \in DOMAIN UpperCaseOf}

\* A caller picks a string; toPascalCase has not been applied yet.
InitNames ==
    /\ pc = "idle"
    /\ schema = NoSchema
    /\ options = NoOptions
    /\ messages = <<>>
    /\ enums = <<>>
    /\ fields = <<>>
    /\ outcome = NoOutcome
    /\ argument \in Words
    /\ applied = <<>>

\* toPascalCase({ value }) is applied to the string, then to its own result.
ApplyToPascalCase ==
    /\ Len(applied) < MaxApplications
    /\ applied' = Append(applied,
                         toPascalCase(IF applied = <<>> THEN argument
                                      ELSE applied[Len(applied)]))
    /\ UNCHANGED <<pc, schema, options, messages, enums, fields, outcome, argument>>

NextNames == ApplyToPascalCase

SpecNames == InitNames /\ [][NextNames]_vars

HasDot(str) == \E i \in 1..Len(str) : str[i] = "."

\* The first character is an upper-case letter.
LeadingCapital(str) ==
    str # <<>> /\ \E i \in 1..Len(UpperCase) : UpperCase[i] = <<Head(str)>>

\* C21 as stated, for a string that is not empty: the second application
\* gives what the first gave if and only if the string has no "." and starts
\* with a capital.
C21_Original ==
    (Len(applied) >= 2 /\ argument # <<>>) =>
        (applied[2] = applied[1] <=> (~HasDot(argument) /\ LeadingCapital(argument)))

\* C21. toPascalCase is idempotent: every further application gives what the
\* first one gave, for every string.  What the condition of the claim
\* describes is the strings a single application leaves as they are: a
\* string is returned unchanged if and only if it has no "." and is either
\* empty or begins with a code unit that toUpperCase does not change.
C21_ToPascalCaseIdempotent ==
    /\ \A i \in 2..Len(applied) : applied[i] = applied[1]
    /\ Len(applied) >= 1 =>
          (applied[1] = argument
              <=> (~HasDot(argument)
                      /\ (argument = <<>> \/ toUpperCase(Head(argument)) = <<Head(argument)>>)))

\* toPascalCase has been applied twice to a string with a "." between two
\* lower-case parts: the first application changed it, the second did not.
C21_Witness ==
    /\ Len(applied) = 2
    /\ HasDot(argument)
    /\ Head(argument) = "a"
    /\ applied[1] # argument
    /\ applied[2] = applied[1]

(***************************************************************************)
(* C22: several registrations under one name                               *)
(***************************************************************************)

Registration(name, body) == [name |-> name, body |-> body]

\* The calls of Map.set that compiling the node v under `key` makes on the
\* message registry (which = "message") or on the enum registry (which =
\* "enum"), in the order in which they are made, each with the name and the
\* value it sets: an object sets the lines traverseSchema returns for it, a
\* tuple the lines of its items, an enum its one definition.  The first call
\* that throws ends the compile: what stands behind it is not compiled, and
\* the node's own set is not made.
RECURSIVE Registrations(_, _, _, _)
RECURSIVE RegistrationsOfEntries(_, _)
RECURSIVE RegistrationsOfItems(_, _, _, _, _)
RegistrationsOfEntries(shape, which) ==
    IF shape = <<>> THEN <<>>
    ELSE Registrations(Head(shape).key, Head(shape).value, FALSE, which)
             \o (IF Returns(Head(shape).key, Head(shape).value)
                 THEN RegistrationsOfEntries(Tail(shape), which) ELSE <<>>)
RegistrationsOfItems(key, items, index, inArray, which) ==
    IF index >= Len(items) THEN <<>>
    ELSE Registrations(TupleItemKey(key, index), items[index + 1], inArray, which)
             \o (IF Returns(TupleItemKey(key, index), items[index + 1])
                 THEN RegistrationsOfItems(key, items, index + 1, inArray, which)
                 ELSE <<>>)
Registrations(key, v, inArray, which) ==
    LET typePrefix == TypePrefixOf(options)
        TupleLines(r) == [i \in 1..Len(r.value) |-> TupleFieldLine(r.value[i], i - 1)]
    IN  CASE IsWrapper(v) -> Registrations(key, v.innerType, inArray, which)
          [] IsContainer(v) -> Registrations(singularize(key), ElementOf(v), TRUE, which)
          [] v.kind = "ZodMap" ->
                Registrations(key \o <<"K", "e", "y">>, v.keyType, TRUE, which)
                    \o (IF Returns(key \o <<"K", "e", "y">>, v.keyType)
                        THEN Registrations(key \o <<"V", "a", "l", "u", "e">>, v.valueType,
                                           TRUE, which)
                        ELSE <<>>)
          [] v.kind = "ZodTuple" ->
                RegistrationsOfItems(key, v.items, 0, inArray, which)
                    \o (IF which = "message" /\ Returns(key, v)
                        THEN <<Registration(toPascalCase(key),
                                            TupleLines(TraverseItems(key, v.items, 0, <<>>, <<>>,
                                                                     inArray, typePrefix)))>>
                        ELSE <<>>)
          [] v.kind = "ZodObject" ->
                RegistrationsOfEntries(v.shape, which)
                    \o (IF which = "message" /\ Returns(key, v)
                        THEN <<Registration(PrefixedTypeName(key, typePrefix),
                                            traverseSchema(v, <<>>, <<>>, typePrefix).value)>>
                        ELSE <<>>)
          [] v.kind = "ZodEnum" ->
                IF which = "enum"
                THEN <<Registration(PrefixedTypeName(key, typePrefix),
                                    <<EnumDefinition(PrefixedTypeName(key, typePrefix),
                                                     v.options)>>)>>
                ELSE <<>>
          [] OTHER -> <<>>

\* The registrations of the current call of zodToProtobuf: none when the
\* root is no ZodObject; else those of the traversal of the root's fields
\* and, on the message registry, the root's own at the end when the
\* traversal returns.
EnumRegistrations ==
    IF schema.kind # "ZodObject" THEN <<>>
    ELSE RegistrationsOfEntries(schema.shape, "enum")
MessageRegistrations ==
    IF schema.kind # "ZodObject" THEN <<>>
    ELSE RegistrationsOfEntries(schema.shape, "message")
             \o (IF Returns(<<>>, schema)
                 THEN <<Registration(RootName(options),
                                     traverseSchema(schema, <<>>, <<>>,
                                                    TypePrefixOf(options)).value)>>
                 ELSE <<>>)

RegistrationNames(regs) == [i \in 1..Len(regs) |-> regs[i].name]

\* The value of the last registration under `name`.
LastBody(regs, name) ==
    regs[CHOOSE i \in 1..Len(regs) :
            /\ regs[i].name = name
            /\ \A j \in (i + 1)..Len(regs) : regs[j].name # name].body

\* One entry per registered name, at the place of the name's first
\* registration and with the value of its last.
FirstPlaceLastBody(regs) ==
    LET names == FirstOccurrences(RegistrationNames(regs))
    IN  [i \in 1..Len(names) |-> Registration(names[i], LastBody(regs, names[i]))]

\* Two registrations under one name set different values.
Overwritten(regs) ==
    \E i, j \in 1..Len(regs) :
        i < j /\ regs[i].name = regs[j].name /\ regs[i].body # regs[j].body

\* C22. When a call has returned, each registry holds one entry per
\* registered name, at the place of the name's first registration and with
\* the value of its last registration, however often the name was registered;
\* the document has exactly one message block per registered message name and
\* one enum block per registered enum name, in that order, and the block of a
\* name is the rendering of the name's last registration.
C22_LastWriteWinsAtFirstPlace ==
    pc = "returned" =>
        LET ms == FirstPlaceLastBody(MessageRegistrations)
            es == FirstPlaceLastBody(EnumRegistrations)
        IN  /\ messages = ms
            /\ enums = es
            /\ MessageBlockNames(DocumentLines) = RegistrationNames(ms)
            /\ EnumBlockNames(DocumentLines) = RegistrationNames(es)
            /\ \A i \in 1..Len(ms) :
                  Mentions(outcome.text, MessageBlock(ms[i].name, ms[i].body))
            /\ \A i \in 1..Len(es) : Mentions(outcome.text, es[i].body[1])

\* A call has returned for a schema in which a message name is registered
\* twice with different lines and an enum name twice with different options.
C22_Witness ==
    /\ pc = "returned"
    /\ Overwritten(MessageRegistrations)
    /\ Overwritten(EnumRegistrations)

(***************************************************************************)
(* C23: one descriptor per call, named by the key                          *)
(***************************************************************************)

MapKeySuffix == <<SP, "m", "a", "p", SP, "k", "e", "y">>
MapValueSuffix == <<SP, "m", "a", "p", SP, "v", "a", "l", "u", "e">>

\* traverseKey returns at the visit one descriptor, named by the key of the
\* visit.
OneDescriptorNamedByKey(visit) ==
    LET Holds(r) == r.ok => (Len(r.value) = 1 /\ r.value[1].name = visit.key)
    IN  Holds(CompileSite(visit))

\* C23. Every call of traverseKey that returns, whatever the node and its
\* nesting, returns exactly one descriptor, named by the key the call was
\* made with; so, after the traversal, the message of every object of the
\* schema has as many lines as the object has fields; and no call throws
\* the "map key" or the "map value" exception of traverseMap.
C23_OneDescriptorNamedByKey ==
    /\ \A visit \in Visits : OneDescriptorNamedByKey(visit)
    /\ Traversed =>
          \A obj \in SubObjects(schema) : Len(CompileObject(obj).value) = Len(obj.shape)
    /\ pc = "thrown" =>
          /\ ~EndsWith(outcome.error.message, MapKeySuffix)
          /\ ~EndsWith(outcome.error.message, MapValueSuffix)

====
